---- MODULE Spec2Model ----
(***************************************************************************)
(* SwiftReader (src/app.js): tokenizer and punctuation merge, index maps,  *)
(* header and footer stripping, page-range construction and lookup, the    *)
(* content store, the pause model and the word display, and the RSVP       *)
(* playback scheduler.                                                     *)
(*                                                                         *)
(* Text is a sequence of one-character strings.  A token is a record       *)
(* [t |-> text, kind |-> "word" | "punct" | "para"].                       *)
(***************************************************************************)
EXTENDS Integers, Sequences, FiniteSets, TLC

(***************************************************************************)
(* Bounds of the model.                                                    *)
(***************************************************************************)
\* the longest text given to tokenize
MaxTextLen == 5
\* the longest token array given to mergePunctuationTokens
MaxToks == 4
\* the most pages given to buildPdfContentFromPages
MaxPages == 3
\* the longest time a session plays, in ms
MaxSession == 1500
\* the longest time a timer callback runs after its deadline, in ms
MaxLate == 60
\* the most content loads pending at once
MaxLoads == 2
\* the most PDF loads pending at once
MaxPdfLoads == 1
\* the most tick timers, and stop timers, pending at once
MaxTimers == 2
\* the most words counted into a document's totalReadWords
MaxRead == 5
\* the most user inputs of a behaviour
\* the pages of a document given to stripPdfHeadersFooters
MaxStripPages == 3
MaxInputs == 3

(***************************************************************************)
(* Characters.                                                             *)
(***************************************************************************)
NL == "\n"
CR == "\r"
SP == " "
HY == "-"

\* the characters input texts are drawn from
Alphabet == {"a", ".", SP, NL, HY}

\* \w of the hyphen-wrap regex (line 167) and WORD_CHAR_RE (lines 240-246)
IsWordChar(c) == c \in {"a", "b", "1"}

\* [ \t] of line 171
IsBlank(c) == c \in {SP, "\t"}

\* \s of the split in tokenize, and the characters trim()/trimEnd() strip
IsSpace(c) == c \in {SP, "\t", NL, CR}

(***************************************************************************)
(* Generic sequence helpers.                                               *)
(***************************************************************************)
RECURSIVE SeqsUpTo(_, _)
SeqsUpTo(S, n) ==
  IF n = 0 THEN {<<>>}
  ELSE LET shorter == SeqsUpTo(S, n - 1)
       IN shorter \cup {Append(s, x) : s \in {q \in shorter : Len(q) = n - 1}, x \in S}

RECURSIVE Concat(_)
Concat(ss) == IF ss = <<>> THEN <<>> ELSE Head(ss) \o Concat(Tail(ss))

RECURSIVE SumSeq(_)
SumSeq(s) == IF s = <<>> THEN 0 ELSE Head(s) + SumSeq(Tail(s))

\* number of leading elements of s that are newlines
RECURSIVE RunOfNL(_)
RunOfNL(s) == IF s # <<>> /\ Head(s) = NL THEN 1 + RunOfNL(Tail(s)) ELSE 0

\* number of leading elements of s that are blanks (space, tab)
RECURSIVE RunOfBlank(_)
RunOfBlank(s) == IF s # <<>> /\ IsBlank(Head(s)) THEN 1 + RunOfBlank(Tail(s)) ELSE 0

Drop(s, n) == SubSeq(s, n + 1, Len(s))

\* the least element of a set of positive numbers, 0 when there is none
LeastOrZero(S) == IF S = {} THEN 0 ELSE CHOOSE i \in S : \A j \in S : i <= j

\* the index of the first element of s that is in the set C, 0 when there is
\* none
FirstIndex(s, C) == LeastOrZero({i \in 1 .. Len(s) : s[i] \in C})

\* the number of elements at the head of s that can be copied as they are:
\* those before the first one in C, less the lead a match needs before it,
\* and at least one
RunBefore(first, len, lead) ==
  IF first = 0 THEN len ELSE IF first - 1 - lead < 1 THEN 1 ELSE first - 1 - lead
PlainRun(s, C, lead) == RunBefore(FirstIndex(s, C), Len(s), lead)

(***************************************************************************)
(* normalizeText, lines 161-179.                                           *)
(***************************************************************************)
\* raw.replace(/\r\n/g, "\n").replace(/\r/g, "\n")
RECURSIVE UnifyLineEndings(_)
UnifyLineEndings(s) ==
  IF s = <<>> THEN <<>>
  ELSE IF Head(s) = CR
       THEN IF Len(s) >= 2 /\ s[2] = NL
            THEN <<NL>> \o UnifyLineEndings(Drop(s, 2))
            ELSE <<NL>> \o UnifyLineEndings(Tail(s))
       ELSE LET n == PlainRun(s, {CR}, 0)
            IN SubSeq(s, 1, n) \o UnifyLineEndings(Drop(s, n))

\* t.replace(/(\w)-\n(\w)/g, "$1$2"): matches do not overlap
RECURSIVE RepairHyphenWraps(_)
RepairHyphenWraps(s) ==
  IF Len(s) < 4 THEN s
  ELSE IF IsWordChar(s[1]) /\ s[2] = HY /\ s[3] = NL /\ IsWordChar(s[4])
       THEN <<s[1], s[4]>> \o RepairHyphenWraps(Drop(s, 4))
       ELSE LET n == PlainRun(s, {HY}, 1)
            IN SubSeq(s, 1, n) \o RepairHyphenWraps(Drop(s, n))

\* t.replace(/[ \t]+\n/g, "\n")
RECURSIVE StripBlanksBeforeNewline(_)
StripBlanksBeforeNewline(s) ==
  IF s = <<>> THEN <<>>
  ELSE IF IsBlank(Head(s))
       THEN LET n == RunOfBlank(s)
            IN IF n < Len(s) /\ s[n + 1] = NL
               THEN <<NL>> \o StripBlanksBeforeNewline(Drop(s, n + 1))
               ELSE SubSeq(s, 1, n) \o StripBlanksBeforeNewline(Drop(s, n))
       ELSE LET n == PlainRun(s, {SP, "\t"}, 0)
            IN SubSeq(s, 1, n) \o StripBlanksBeforeNewline(Drop(s, n))

\* t.replace(/\n{3,}/g, "\n\n")
RECURSIVE CollapseNewlines(_)
CollapseNewlines(s) ==
  IF s = <<>> THEN <<>>
  ELSE IF Head(s) = NL
       THEN LET n == RunOfNL(s)
            IN (IF n >= 3 THEN <<NL, NL>> ELSE SubSeq(s, 1, n))
               \o CollapseNewlines(Drop(s, n))
       ELSE LET n == PlainRun(s, {NL}, 0)
            IN SubSeq(s, 1, n) \o CollapseNewlines(Drop(s, n))

\* String.prototype.trimEnd / trimStart / trim
RECURSIVE TrimEnd(_)
TrimEnd(s) ==
  IF s # <<>> /\ IsSpace(s[Len(s)]) THEN TrimEnd(SubSeq(s, 1, Len(s) - 1)) ELSE s

RECURSIVE TrimStart(_)
TrimStart(s) == IF s # <<>> /\ IsSpace(Head(s)) THEN TrimStart(Tail(s)) ELSE s

Trim(s) == TrimStart(TrimEnd(s))

\* t.split("\n"): the pieces between single newlines (always at least one piece)
RECURSIVE SplitLines(_, _)
SplitLines(s, cur) ==
  IF s = <<>> THEN <<cur>>
  ELSE IF Head(s) = NL THEN <<cur>> \o SplitLines(Tail(s), <<>>)
       ELSE LET n == PlainRun(s, {NL}, 0)
            IN SplitLines(Drop(s, n), cur \o SubSeq(s, 1, n))

\* lines.join("\n")
RECURSIVE JoinLines(_)
JoinLines(ls) ==
  IF ls = <<>> THEN <<>>
  ELSE IF Len(ls) = 1 THEN Head(ls)
       ELSE Head(ls) \o <<NL>> \o JoinLines(Tail(ls))

\* t.split("\n").map(line => line.trimEnd()).join("\n")
TrimEndEachLine(s) ==
  LET ls == SplitLines(s, <<>>)
  IN JoinLines([i \in 1..Len(ls) |-> TrimEnd(ls[i])])

normalizeText(raw) ==
  IF raw = <<>> THEN <<>>
  ELSE Trim(TrimEndEachLine(CollapseNewlines(StripBlanksBeforeNewline(
         RepairHyphenWraps(UnifyLineEndings(raw))))))

(***************************************************************************)
(* mergePunctuationTokens, lines 248-289.  The accumulator of the forEach  *)
(* is [merged, leading, changed].                                          *)
(***************************************************************************)
WordTok(t) == [t |-> t, kind |-> "word"]
PunctTok(t) == [t |-> t, kind |-> "punct"]
ParaTok == [t |-> <<NL, NL>>, kind |-> "para"]

\* a variant that keeps a fragment with no preceding word as its own token
appendToPreviousWordStandalone(acc, text) ==
  LET m == acc.merged
  IN IF m # <<>> /\ m[Len(m)].kind = "word"
     THEN [acc EXCEPT !.merged[Len(m)].t = @ \o text]
     ELSE [acc EXCEPT !.merged = Append(@, PunctTok(text))]

\* lines 254-261
appendToPreviousWord(acc, text) ==
  LET m == acc.merged
  IN IF m # <<>> /\ m[Len(m)].kind = "word"
     THEN [acc EXCEPT !.merged[Len(m)].t = @ \o text]
     ELSE [acc EXCEPT !.leading = @ \o text]

\* a variant that emits the held prefix as a token of its own
mergeWordPrefixSeparate(acc, tok) ==
  LET pre == IF acc.leading # <<>> THEN <<WordTok(acc.leading)>> ELSE <<>>
      own == IF tok.t # <<>> THEN <<WordTok(tok.t)>> ELSE <<>>
  IN [merged |-> acc.merged \o pre \o own,
      leading |-> <<>>,
      changed |-> acc.changed \/ acc.leading # <<>>]

\* lines 280-285
mergeWord(acc, tok) ==
  LET text == acc.leading \o tok.t
  IN [merged |-> IF text # <<>> THEN Append(acc.merged, WordTok(text)) ELSE acc.merged,
      leading |-> <<>>,
      changed |-> acc.changed \/ acc.leading # <<>>]

\* lines 265-272
mergePara(acc, tok) ==
  [merged |-> Append(acc.merged, tok),
   leading |-> <<>>,
   changed |-> acc.changed \/ acc.leading # <<>>]

\* lines 274-278
mergePunct(acc, tok) ==
  appendToPreviousWord([acc EXCEPT !.changed = TRUE], tok.t)

\* the body of the forEach, lines 263-286
mergeStep(acc, tok) ==
  IF tok.kind = "para" THEN mergePara(acc, tok)
  ELSE IF tok.kind = "punct" THEN mergePunct(acc, tok)
  ELSE IF tok.kind = "word" THEN mergeWord(acc, tok)
  ELSE acc

RECURSIVE mergeFold(_, _)
mergeFold(acc, toks) ==
  IF toks = <<>> THEN acc ELSE mergeFold(mergeStep(acc, Head(toks)), Tail(toks))

mergePunctuationTokens(toks) ==
  IF toks = <<>> THEN [tokens |-> <<>>, changed |-> FALSE]
  ELSE LET r == mergeFold([merged |-> <<>>, leading |-> <<>>, changed |-> FALSE], toks)
       IN [tokens |-> r.merged, changed |-> r.changed]

(***************************************************************************)
(* tokenize, lines 314-347, and countWords, lines 349-351.                 *)
(***************************************************************************)
\* t.split(/\n{2,}/g)
RECURSIVE SplitParagraphs(_, _)
SplitParagraphs(s, cur) ==
  IF s = <<>> THEN <<cur>>
  ELSE IF Head(s) = NL /\ RunOfNL(s) >= 2
       THEN <<cur>> \o SplitParagraphs(Drop(s, RunOfNL(s)), <<>>)
       ELSE SplitParagraphs(Tail(s), Append(cur, Head(s)))

\* para.split(/\s+/g).map(token => token.trim()).filter(Boolean)
RECURSIVE SplitFragments(_, _)
SplitFragments(s, cur) ==
  IF s = <<>> THEN (IF cur = <<>> THEN <<>> ELSE <<cur>>)
  ELSE IF IsSpace(Head(s))
       THEN (IF cur = <<>> THEN <<>> ELSE <<cur>>) \o SplitFragments(Tail(s), <<>>)
       ELSE SplitFragments(Tail(s), Append(cur, Head(s)))

\* WORD_CHAR_RE.test(r), line 332
isWordLike(r) == \E i \in 1..Len(r) : IsWordChar(r[i])

\* lines 331-338
classify(r) == IF isWordLike(r) THEN WordTok(r) ELSE PunctTok(r)

\* one iteration of the loop over parts, lines 322-344 (p is 1-based here)
paragraphTokens(parts, p) ==
  LET para == Trim(parts[p])
      raw == SplitFragments(para, <<>>)
  IN IF para = <<>> THEN <<>>
     ELSE [i \in 1..Len(raw) |-> classify(raw[i])]
          \o (IF p < Len(parts) THEN <<ParaTok>> ELSE <<>>)

\* the tokens pushed before the merge, lines 319-344
rawTokens(t) ==
  LET parts == SplitParagraphs(t, <<>>)
  IN Concat([p \in 1..Len(parts) |-> paragraphTokens(parts, p)])

tokenize(text) ==
  LET t == normalizeText(text)
  IN IF t = <<>> THEN <<>> ELSE mergePunctuationTokens(rawTokens(t)).tokens

RECURSIVE countWords(_)
countWords(toks) ==
  IF toks = <<>> THEN 0
  ELSE (IF Head(toks).kind = "word" THEN 1 ELSE 0) + countWords(Tail(toks))

(***************************************************************************)
(* Header and footer stripping, lines 2326-2472.  A page is                *)
(* [pageIndex, pageHeight, lines] and a line [y, text], as extractPdfLines *)
(* returns them; y grows from the bottom of the page to its top.           *)
(***************************************************************************)
\* String.prototype.toLowerCase on the letters the line samples use
toLowerCase(c) ==
  CASE c = "A" -> "a" [] c = "B" -> "b" [] c = "P" -> "p" [] c = "I" -> "i" [] OTHER -> c

\* \d and \w of the regular expressions of lines 2329-2352
IsDigit(c) == c \in {"0", "1", "2", "3", "4", "5", "6", "7", "8", "9"}
IsRegexWord(c) ==
  \/ toLowerCase(c) \in {"a", "b", "c", "d", "e", "f", "g", "i", "l", "m", "o", "p", "v", "x"}
  \/ IsDigit(c) \/ c = "_"

\* replace(/\s+/g, " ")
RECURSIVE collapseSpaces(_)
collapseSpaces(s) ==
  IF s = <<>> THEN <<>>
  ELSE IF IsSpace(Head(s)) THEN <<SP>> \o collapseSpaces(TrimStart(Tail(s)))
       ELSE LET n == PlainRun(s, {SP, "\t", NL, CR}, 0)
            IN SubSeq(s, 1, n) \o collapseSpaces(Drop(s, n))

\* lines 2326-2332
normalizeLineForMatch(text) ==
  LET lowered == [i \in 1..Len(text) |-> toLowerCase(text[i])]
  IN Trim(collapseSpaces(SelectSeq(lowered, LAMBDA c : IsRegexWord(c) \/ IsSpace(c))))

\* lines 2334-2336
removeDigits(text) == Trim(SelectSeq(text, LAMBDA c : ~IsDigit(c)))

\* String.prototype.includes
includes(text, part) ==
  \E i \in 0 .. Len(text) - Len(part) : SubSeq(text, i + 1, i + Len(part)) = part

\* lines 2345-2354
isPageNumberLike(text) ==
  LET trimmed == Trim(text)
      n == Len(trimmed)
      compact == SelectSeq(trimmed, LAMBDA c : ~IsSpace(c))
      m == Len(compact)
      edge(c) == ~IsRegexWord(c) \/ c = "_"
      roman(c) == toLowerCase(c) \in {"i", "v", "x", "l", "c", "d", "m"}
      \* /^[\W_]*core+[\W_]*$/ on compact
      framed(core(_)) ==
        \E i \in 0 .. m : \E j \in i + 1 .. m :
          /\ \A k \in 1 .. i : edge(compact[k])
          /\ \A k \in i + 1 .. j : core(compact[k])
          /\ \A k \in j + 1 .. m : edge(compact[k])
      \* /^\d+\s*\/\s*\d+$/ on trimmed
      fraction ==
        \E slash \in 2 .. n - 1 :
          /\ trimmed[slash] = "/"
          /\ \E a \in 1 .. slash - 1 :
               /\ \A k \in 1 .. a : IsDigit(trimmed[k])
               /\ \A k \in a + 1 .. slash - 1 : IsSpace(trimmed[k])
          /\ \E b \in slash + 1 .. n :
               /\ \A k \in slash + 1 .. b - 1 : IsSpace(trimmed[k])
               /\ \A k \in b .. n : IsDigit(trimmed[k])
      \* /^page\s*\d+(\s*(of|\/)\s*\d+)?/i on trimmed
      pageOf ==
        /\ n >= 5
        /\ [i \in 1 .. 4 |-> toLowerCase(trimmed[i])] = <<"p", "a", "g", "e">>
        /\ \E k \in 5 .. n :
             /\ \A j \in 5 .. k - 1 : IsSpace(trimmed[j])
             /\ IsDigit(trimmed[k])
  IN /\ trimmed # <<>>
     /\ framed(IsDigit) \/ fraction \/ pageOf \/ framed(roman)

\* bands of 3% of the page height
inMarginBandNarrow(page, line) ==
  \/ line.y * 100 < page.pageHeight * 3
  \/ line.y * 100 > page.pageHeight * 97
\* line 2411: the line lies in the top or the bottom band of its page
\* (15% of the page height each, in hundredths to stay in whole numbers)
inMarginBand(page, line) ==
  \/ line.y * 100 < page.pageHeight * 15
  \/ line.y * 100 > page.pageHeight * 85

\* lines 2397-2439
buildPdfStripRules(pages, options) ==
  LET totalPages == Len(pages)
      candidates(line) ==
        {normalizeLineForMatch(line.text), removeDigits(normalizeLineForMatch(line.text))}
          \ {<<>>}
      keysOf(page) ==
        {key \in UNION {candidates(page.lines[i]) :
                          i \in {k \in 1 .. Len(page.lines) : inMarginBand(page, page.lines[k])}} :
           Len(key) >= 3 /\ Len(key) <= 90}
      keys == [i \in 1 .. totalPages |-> keysOf(pages[i])]
      pagesOf(key) == {pages[i].pageIndex : i \in {k \in 1 .. totalPages : key \in keys[k]}}
      phrases == [i \in 1 .. Len(options.customPhrases) |->
                    normalizeLineForMatch(options.customPhrases[i])]
  IN [removeSet |-> {key \in UNION {keys[i] : i \in 1 .. totalPages} :
                       totalPages # 0 /\ Cardinality(pagesOf(key)) * 100 >= 35 * totalPages},
      customPhrases |-> SelectSeq(phrases, LAMBDA ph : ph # <<>>)]

\* filtered.sort((a, b) => b.y - a.y), line 2465: from the top of the page
\* down, lines of one height in the order they had
RECURSIVE sortTopDown(_)
sortTopDown(lines) ==
  IF lines = <<>> THEN <<>>
  ELSE LET rest == sortTopDown(SubSeq(lines, 1, Len(lines) - 1))
           last == lines[Len(lines)]
           above == {i \in 1 .. Len(rest) : rest[i].y >= last.y}
           at == IF above = {} THEN 0 ELSE CHOOSE i \in above : \A j \in above : j <= i
       IN SubSeq(rest, 1, at) \o <<last>> \o SubSeq(rest, at + 1, Len(rest))

\* lines 2441-2472; kept is the lines that pass the filter of line 2447
stripPdfHeadersFooters(pages, options) ==
  LET rules == buildPdfStripRules(pages, options)
      keep(line) ==
        LET rawText == Trim(line.text)
            norm == normalizeLineForMatch(rawText)
            normNoDigits == removeDigits(norm)
            wordCount == Cardinality({i \in 1 .. Len(rawText) :
                                        /\ ~IsSpace(rawText[i])
                                        /\ i = 1 \/ IsSpace(rawText[i - 1])})
        IN IF ~options.enabled /\ rules.customPhrases = <<>> THEN TRUE
           ELSE IF rawText = <<>> THEN FALSE
           ELSE IF Len(rawText) > 120 \/ wordCount > 15 THEN TRUE
           ELSE IF isPageNumberLike(rawText) THEN FALSE
           ELSE IF norm \in rules.removeSet \/ normNoDigits \in rules.removeSet THEN FALSE
           ELSE ~\E i \in 1 .. Len(rules.customPhrases) :
                   \/ includes(norm, rules.customPhrases[i])
                   \/ includes(normNoDigits, rules.customPhrases[i])
      filtered == [i \in 1 .. Len(pages) |-> SelectSeq(pages[i].lines, keep)]
      textOf(lines) == normalizeText(JoinLines([i \in 1 .. Len(lines) |-> lines[i].text]))
  IN [kept |-> filtered,
      pageTexts |-> [i \in 1 .. Len(pages) |-> textOf(sortTopDown(filtered[i]))]]

(***************************************************************************)
(* buildPdfContentFromPages, lines 2474-2498.  pageTexts is the result of  *)
(* stripPdfHeadersFooters (line 2475): one cleaned, normalized text per    *)
(* page.                                                                   *)
(***************************************************************************)
\* the running cursor before page idx (1-based): words on the pages before it
RECURSIVE cursorBefore(_, _)
cursorBefore(wordCounts, idx) ==
  IF idx <= 1 THEN 0 ELSE cursorBefore(wordCounts, idx - 1) + wordCounts[idx - 1]

\* the callback of wordCounts.map, lines 2479-2489
pageRange(wordCounts, idx) ==
  LET cursor == cursorBefore(wordCounts, idx)
      wordCount == wordCounts[idx]
  IN [page |-> idx,
      start |-> cursor,
      end |-> IF wordCount # 0 THEN cursor + wordCount - 1 ELSE cursor,
      wordCount |-> wordCount]

buildPdfContentFromPages(pageTexts) ==
  LET tokensByPage == [i \in 1..Len(pageTexts) |-> tokenize(pageTexts[i])]
      wordCounts == [i \in 1..Len(pageTexts) |-> countWords(tokensByPage[i])]
      combinedTokens == Concat(tokensByPage)
  IN [tokens |-> combinedTokens,
      tokensByPage |-> tokensByPage,
      wordCount |-> countWords(combinedTokens),
      pageRanges |-> [i \in 1..Len(pageTexts) |-> pageRange(wordCounts, i)]]

(***************************************************************************)
(* getPdfPageForWordIndex, lines 3165-3184, and getWordStartForPdfPage,    *)
(* lines 3186-3190.  lo, hi and mid are 1-based here.                      *)
(***************************************************************************)
\* a variant whose upper comparison is off by one
RECURSIVE pdfPageSearchOffByOne(_, _, _, _, _)
pdfPageSearchOffByOne(ranges, wordIndex, lo, hi, result) ==
  IF lo > hi THEN result
  ELSE LET mid == (lo + hi) \div 2
           range == ranges[mid]
       IN IF wordIndex < range.start
          THEN pdfPageSearchOffByOne(ranges, wordIndex, lo, mid - 1, range.page)
          ELSE IF wordIndex >= range.end
               THEN pdfPageSearchOffByOne(ranges, wordIndex, mid + 1, hi, range.page)
               ELSE range.page

\* the while loop, lines 3171-3182
RECURSIVE pdfPageSearch(_, _, _, _, _)
pdfPageSearch(ranges, wordIndex, lo, hi, result) ==
  IF lo > hi THEN result
  ELSE LET mid == (lo + hi) \div 2
           range == ranges[mid]
       IN IF wordIndex < range.start
          THEN pdfPageSearch(ranges, wordIndex, lo, mid - 1, range.page)
          ELSE IF wordIndex > range.end
               THEN pdfPageSearch(ranges, wordIndex, mid + 1, hi, range.page)
               ELSE range.page

getPdfPageForWordIndex(ranges, wordIndex) ==
  IF ranges = <<>> THEN 1
  ELSE pdfPageSearch(ranges, wordIndex, 1, Len(ranges), ranges[1].page)

getWordStartForPdfPage(ranges, page) ==
  LET hits == {i \in 1..Len(ranges) : ranges[i].page = page}
  IN IF hits = {} THEN 0
     ELSE ranges[CHOOSE i \in hits : \A j \in hits : i <= j].start

(***************************************************************************)
(* State.                                                                  *)
(***************************************************************************)
VARIABLES
  tkMode,    \* "text": tokenize a text; "tokens": merge a stored token list
  tkText,    \* the text given to tokenize
  tkInput,   \* the token list given to mergePunctuationTokens
  tkOnce,    \* the result of tokenize / of the first merge
  tkTwice,   \* the result of merging tkOnce.tokens again
  tkPhase,   \* "input", "once", "twice", "mapped"
  ixMap,     \* the stream last given to the index mapper and its two lookups
  wd,        \* a token given to the pause model and to the word display, with
             \* what getPauseInfoForToken and renderRSVPWord returned for it
  pgTexts,   \* the cleaned page texts given to buildPdfContentFromPages
  pgContent, \* its result
  pgPhase,   \* "input", "built", "word", "start", "roundtrip"
  pgQuery,   \* the argument of the last lookup
  pgResult,  \* the result of the last lookup
  strip      \* the pages and options given to stripPdfHeadersFooters, and
             \* the lines it kept and the page texts it returned

tokVars == <<tkMode, tkText, tkInput, tkOnce, tkTwice, tkPhase, ixMap, wd>>
pdfVars == <<pgTexts, pgContent, pgPhase, pgQuery, pgResult, strip>>

NoMerge == [tokens |-> <<>>, changed |-> FALSE]
NoMap == [stream |-> <<>>, wordOf |-> <<>>, tokenOf |-> <<>>, scanWordOf |-> <<>>,
          scanTokenOf |-> <<>>]
NoWord == [has |-> FALSE, tok |-> [kind |-> "none", t |-> <<>>], pause |-> <<>>, rsvp |-> <<>>]
NoContent == [tokens |-> <<>>, tokensByPage |-> <<>>, wordCount |-> 0, pageRanges |-> <<>>]
NoStrip == [done |-> FALSE, pages |-> <<>>, options |-> [enabled |-> TRUE, customPhrases |-> <<>>],
            kept |-> <<>>, pageTexts |-> <<>>]

(***************************************************************************)
(* Tokenizer: inputs and operations.                                       *)
(***************************************************************************)
\* stored tokens as tokenize classifies them: a word token holds a letter
TokenSamples ==
  {WordTok(<<"a">>), WordTok(<<"a", ".">>), PunctTok(<<".">>), PunctTok(<<HY>>), ParaTok}

TokRest ==
  /\ tkMode = "none" /\ tkText = <<>> /\ tkInput = <<>>
  /\ tkOnce = NoMerge /\ tkTwice = NoMerge /\ tkPhase = "input" /\ ixMap = NoMap
  /\ wd = NoWord

TokInit ==
  /\ tkMode \in {"text", "tokens"}
  /\ tkText \in (IF tkMode = "text" THEN SeqsUpTo(Alphabet, MaxTextLen) ELSE {<<>>})
  /\ tkInput \in (IF tkMode = "tokens" THEN SeqsUpTo(TokenSamples, MaxToks) ELSE {<<>>})
  /\ tkOnce = NoMerge /\ tkTwice = NoMerge /\ tkPhase = "input" /\ ixMap = NoMap
  /\ wd = NoWord

TokenizeText ==
  /\ tkMode = "text" /\ tkPhase = "input"
  /\ tkOnce' = [tokens |-> tokenize(tkText), changed |-> FALSE]
  /\ tkPhase' = "once"
  /\ UNCHANGED <<tkMode, tkText, tkInput, tkTwice, ixMap, wd>>

MergeTokens ==
  /\ tkMode = "tokens" /\ tkPhase = "input"
  /\ tkOnce' = mergePunctuationTokens(tkInput)
  /\ tkPhase' = "once"
  /\ UNCHANGED <<tkMode, tkText, tkInput, tkTwice, ixMap, wd>>

MergeAgain ==
  /\ tkPhase = "once"
  /\ tkTwice' = mergePunctuationTokens(tkOnce.tokens)
  /\ tkPhase' = "twice"
  /\ UNCHANGED <<tkMode, tkText, tkInput, tkOnce, ixMap, wd>>


(***************************************************************************)
(* Page ranges: inputs and operations.                                     *)
(***************************************************************************)
PageTextSamples ==
  { <<>>,
    <<".">>,
    <<"a">>,
    <<"a", SP, "a", ".">>,
    <<"a", SP, "a", SP, "a">>,
    <<"a", SP, "a", SP, "a", SP, "a", SP, "a">> }

PdfRest ==
  /\ pgTexts = <<>> /\ pgContent = NoContent /\ pgPhase = "input"
  /\ pgQuery = 0 /\ pgResult = 0 /\ strip = NoStrip

PdfInit ==
  /\ pgTexts \in SeqsUpTo(PageTextSamples, MaxPages)
  /\ pgContent = NoContent /\ pgPhase = "input"
  /\ pgQuery = 0 /\ pgResult = 0 /\ strip = NoStrip

BuildPdf ==
  /\ pgPhase = "input"
  /\ pgContent' = buildPdfContentFromPages(pgTexts)
  /\ pgPhase' = "built"
  /\ UNCHANGED <<pgTexts, pgQuery, pgResult, strip>>

LookupPageOfWord ==
  /\ pgPhase = "built"
  /\ \E w \in -1..pgContent.wordCount :
       /\ pgQuery' = w
       /\ pgResult' = getPdfPageForWordIndex(pgContent.pageRanges, w)
  /\ pgPhase' = "word"
  /\ UNCHANGED <<pgTexts, pgContent, strip>>

LookupStartOfPage ==
  /\ pgPhase = "built"
  /\ \E p \in 0..(Len(pgTexts) + 1) :
       /\ pgQuery' = p
       /\ pgResult' = getWordStartForPdfPage(pgContent.pageRanges, p)
  /\ pgPhase' = "start"
  /\ UNCHANGED <<pgTexts, pgContent, strip>>

LookupPageOfPageStart ==
  /\ pgPhase = "built"
  /\ \E p \in 1..Len(pgTexts) :
       /\ pgQuery' = p
       /\ pgResult' = getPdfPageForWordIndex(pgContent.pageRanges,
                         getWordStartForPdfPage(pgContent.pageRanges, p))
  /\ pgPhase' = "roundtrip"
  /\ UNCHANGED <<pgTexts, pgContent, strip>>


(***************************************************************************)
(* Index mapper, lines 3025-3069, on a token list.                         *)
(***************************************************************************)
Max(a, b) == IF a > b THEN a ELSE b
Min(a, b) == IF a < b THEN a ELSE b

\* line 33: Math.max(a, Math.min(b, n))
clamp(n, a, b) == Max(a, Min(b, n))

\* wordIndexToToken of getWordIndexMap: 0-based token indices of the word tokens
RECURSIVE wordIndexToToken(_, _)
wordIndexToToken(toks, i) ==
  IF i > Len(toks) THEN <<>>
  ELSE (IF toks[i].kind = "word" THEN <<i - 1>> ELSE <<>>) \o wordIndexToToken(toks, i + 1)

\* tokenIndexToWord of getWordIndexMap: word index of a token, -1 for a non-word
tokenIndexToWord(toks) ==
  [i \in 1..Len(toks) |->
     IF toks[i].kind = "word" THEN countWords(SubSeq(toks, 1, i)) - 1 ELSE -1]

\* the while loop of getWordIndexForTokenIndex, lines 3057-3060
RECURSIVE walkBackToWord(_, _)
walkBackToWord(t2w, idx) ==
  IF idx > 0 /\ t2w[idx + 1] < 0 THEN walkBackToWord(t2w, idx - 1) ELSE t2w[idx + 1]

getWordIndexForTokenIndex(toks, tokenIndex) ==
  IF toks = <<>> THEN 0
  ELSE Max(0, walkBackToWord(tokenIndexToWord(toks), clamp(tokenIndex, 0, Len(toks) - 1)))

\* variant: reads the entry before the clamped one
getTokenIndexForWordIndexShifted(toks, wordIndex) ==
  IF toks = <<>> THEN 0
  ELSE LET w2t == wordIndexToToken(toks, 1)
           clamped == clamp(wordIndex, 0, Max(0, Len(w2t) - 1))
       IN IF clamped \in DOMAIN w2t THEN w2t[clamped] ELSE 0

getTokenIndexForWordIndex(toks, wordIndex) ==
  IF toks = <<>> THEN 0
  ELSE LET w2t == wordIndexToToken(toks, 1)
           clamped == clamp(wordIndex, 0, Max(0, Len(w2t) - 1))
       IN IF clamped + 1 \in DOMAIN w2t THEN w2t[clamped + 1] ELSE 0

\* lines 291-300: the linear scan
getWordIndexForTokenIndexFromTokens(toks, tokenIndex) ==
  IF toks = <<>> THEN 0
  ELSE Max(0, countWords(SubSeq(toks, 1, clamp(tokenIndex, 0, Len(toks) - 1) + 1)) - 1)

\* lines 302-312: the token of the word-th word, the last token if there is none
getTokenIndexForWordIndexFromTokens(toks, wordIndex) ==
  IF toks = <<>> THEN 0
  ELSE LET found == {i \in 1..Len(toks) :
                       /\ toks[i].kind = "word"
                       /\ countWords(SubSeq(toks, 1, i)) - 1 = wordIndex}
       IN IF found = {} THEN Max(0, Len(toks) - 1)
          ELSE (CHOOSE i \in found : TRUE) - 1

\* the two lookups on a stream, by the map and by the linear scan, for every
\* index from two below the first to two past the last: the stream is the
\* stored token list as read back (tkInput) or the result of tokenize /
\* mergePunctuationTokens
MapIndices ==
  /\ tkPhase \in {"input", "once"}
  /\ tkPhase = "input" => tkMode = "tokens"
  /\ LET toks == IF tkPhase = "input" THEN tkInput ELSE tkOnce.tokens
     IN ixMap' =
          [stream |-> toks,
           wordOf |-> [t \in -2 .. Len(toks) + 1 |-> getWordIndexForTokenIndex(toks, t)],
           tokenOf |-> [w \in -2 .. countWords(toks) + 1 |-> getTokenIndexForWordIndex(toks, w)],
           scanWordOf |-> [t \in -2 .. Len(toks) + 1 |->
                             getWordIndexForTokenIndexFromTokens(toks, t)],
           scanTokenOf |-> [w \in -2 .. countWords(toks) + 1 |->
                              getTokenIndexForWordIndexFromTokens(toks, w)]]
  /\ tkPhase' = "mapped"
  /\ UNCHANGED <<tkMode, tkText, tkInput, tkOnce, tkTwice, wd>>

(***************************************************************************)
(* Pause model, lines 4153-4200.  Delays are whole milliseconds.           *)
(***************************************************************************)
IsHardPunct(c) == c \in {".", "!", "?"}
IsSoftPunct(c) == c \in {",", ";", ":"}
IsTrailingWrapper(c) == c \in {")", "]", "}", "\"", "'"}

\* text.replace(TRAILING_WRAPPER_RE, "")
RECURSIVE stripTrailingWrappers(_)
stripTrailingWrappers(t) ==
  IF t # <<>> /\ IsTrailingWrapper(t[Len(t)])
  THEN stripTrailingWrappers(SubSeq(t, 1, Len(t) - 1)) ELSE t

getPauseKindForWord(text) ==
  LET trimmed == Trim(text)
      cleaned == stripTrailingWrappers(trimmed)
  IN IF trimmed = <<>> THEN "none"
     ELSE IF cleaned # <<>> /\ IsHardPunct(cleaned[Len(cleaned)]) THEN "hard"
     ELSE IF cleaned # <<>> /\ IsSoftPunct(cleaned[Len(cleaned)]) THEN "soft"
     ELSE "none"

getBaseDelayMs(cfg) == 60000 \div clamp(cfg.wpm, 150, 1200)

\* Math.min(baseDelay * k * pauseScale, maxExtra), k given in hundredths
pauseExtra(cfg, k100) ==
  Min((getBaseDelayMs(cfg) * k100 * clamp(cfg.pause, 0, 200)) \div 10000,
      getBaseDelayMs(cfg) * 2)

\* variant: the auto-pause switch is not read
getPauseInfoForTokenAlways(cfg, tok) ==
  LET k100 == IF tok.kind = "para" THEN 120
              ELSE IF getPauseKindForWord(tok.t) = "hard" THEN 80
              ELSE IF getPauseKindForWord(tok.t) = "soft" THEN 35
              ELSE 0
  IN [extraDelay |-> pauseExtra(cfg, k100), countPause |-> k100 * clamp(cfg.pause, 0, 200) > 0]

\* variant: the extra delay is not capped
getPauseInfoForTokenUncapped(cfg, tok) ==
  LET k100 == IF tok.kind = "para" THEN 120
              ELSE IF getPauseKindForWord(tok.t) = "hard" THEN 80
              ELSE IF getPauseKindForWord(tok.t) = "soft" THEN 35
              ELSE 0
      scaled == k100 * clamp(cfg.pause, 0, 200)
  IN IF ~cfg.autoPause THEN [extraDelay |-> 0, countPause |-> FALSE]
     ELSE [extraDelay |-> (getBaseDelayMs(cfg) * scaled) \div 10000, countPause |-> scaled > 0]

\* lines 4167-4200.  extraDelay is given in whole milliseconds; countPause is
\* extraDelay > 0 of the unrounded product, which is positive exactly when
\* the factor and the clamped slider value are
getPauseInfoForToken(cfg, tok) ==
  LET kind == IF tok.kind = "para" THEN "para"
              ELSE IF tok.kind = "punct"
                   THEN (IF tok.t # <<>> /\ \A i \in 1..Len(tok.t) : IsHardPunct(tok.t[i]) THEN "hard"
                         ELSE IF tok.t # <<>> /\ \A i \in 1..Len(tok.t) : IsSoftPunct(tok.t[i]) THEN "soft"
                         ELSE "none")
              ELSE getPauseKindForWord(tok.t)
      k100 == IF kind = "para" THEN 120
              ELSE IF kind = "hard" THEN 80
              ELSE IF kind = "soft" THEN 35
              ELSE 0
  IN IF ~cfg.autoPause THEN [extraDelay |-> 0, countPause |-> FALSE]
     ELSE [extraDelay |-> pauseExtra(cfg, k100),
           countPause |-> k100 * clamp(cfg.pause, 0, 200) > 0]

\* variant: the second band ends one letter later
getOrpIndexLateBand(word) ==
  LET len == Len(word)
  IN IF len <= 2 THEN 0
     ELSE IF len <= 6 THEN 1
     ELSE IF len <= 9 THEN 2
     ELSE IF len <= 13 THEN 3
     ELSE 4

\* lines 357-367
getOrpIndex(word) ==
  LET len == Len(word)
  IN IF len <= 1 THEN 0
     ELSE IF len <= 2 THEN 0
     ELSE IF len <= 5 THEN 1
     ELSE IF len <= 9 THEN 2
     ELSE IF len <= 13 THEN 3
     ELSE 4

\* the glyph shown for a word without a pivot character, lines 370 and 374
Bullet == "bullet"

\* lines 369-377; idx is the pivot's index, which the code does not return
renderRSVPWord(word) ==
  IF word = <<>> THEN [left |-> <<>>, pivot |-> Bullet, right |-> <<>>, idx |-> 0]
  ELSE LET idx == clamp(getOrpIndex(word), 0, Max(0, Len(word) - 1))
       IN [left |-> SubSeq(word, 1, idx),
           pivot |-> IF idx + 1 \in DOMAIN word THEN word[idx + 1] ELSE Bullet,
           right |-> SubSeq(word, idx + 2, Len(word)),
           idx |-> idx]

(***************************************************************************)
(* The library of the scheduler model: two PDF documents whose content is  *)
(* built by buildPdfContentFromPages.                                      *)
(***************************************************************************)
Docs == {"A", "B"}
NoBook == "none"
Null == -1

\* the reading of the clock (Date.now() and performance.now() are never 0)
StartTime == 100000
\* how late the event loop may run a timer callback, in one step of the clock
LagMs == 60

PagesA == << <<"a", SP, "a", ".">>, <<"a", NL, NL, "a">> >>
PagesB == << <<"a">>, <<"a", ".">> >>
ContentA == buildPdfContentFromPages(PagesA)
ContentB == buildPdfContentFromPages(PagesB)
DocContent(d) == IF d = "A" THEN ContentA ELSE ContentB

VARIABLES
  selectedBookId, \* line 1148
  contentCache,   \* per document: its entry of the content cache, if any
  books,          \* per document: progress.index, readerState.currentWordIndex,
                  \* readerState.currentPdfPage, stats.totalReadWords, and the
                  \* tokenCount and wordCount stored with the book
  reader,         \* lines 1194-1204
  tickTimers,     \* pending setTimeout(advancePlayback), line 4209
  stopTimers,     \* pending setTimeout(() => stopReader(true)), line 4262; stale
                  \* notes that playback was started after the timer was armed
  pdfSync,        \* pdfSyncTimer and pdfSyncTarget, lines 1159-1160
  scrub,          \* scrubberRaf and pendingScrubValue, lines 1157-1158
  pdfState,       \* lines 1165-1180: doc, currentBookId, page, total
  pdfLoads,       \* pending pdf.js getDocument promises, line 3511
  contentLoads,   \* pending ensureBookContent promises with their continuation
  now,            \* the clock, in ms
  settings,       \* wpm, pause, autoPause, chunkSize, syncRsvpToPage
  lastOp,         \* the handler that ran last
  inputs,         \* the number of user inputs handled so far
  library,        \* the ids of state.library.books
  bookTokens,     \* per document: book.tokens, the stream a legacy book carries
  idbReady,       \* line 392
  idbContents,    \* per document: its record in the contents store, if any
  wordIndexCache  \* line 464: per document, the map cached by getWordIndexMap

rdrVars == <<selectedBookId, contentCache, books, reader, tickTimers, stopTimers,
             pdfSync, scrub, pdfState, pdfLoads, contentLoads, now, settings, lastOp,
             inputs, library, bookTokens, idbReady, idbContents, wordIndexCache>>

vars == <<tokVars, pdfVars, rdrVars>>

NoSync == [pending |-> FALSE, due |-> Null, target |-> Null, doc |-> NoBook]
\* calls: the scheduleScrub calls made since the frame was requested
NoScrub == [pending |-> FALSE, value |-> Null, commit |-> FALSE, doc |-> NoBook, calls |-> 0]
NoPdf == [doc |-> FALSE, currentBookId |-> NoBook, page |-> 1, total |-> 1]
NoReader == [isPlaying |-> FALSE, startedAt |-> Null, elapsedBefore |-> 0,
             sessionWords |-> 0, pauses |-> 0, nextTickAt |-> Null]
\* the book record of lines 2763-2790
NewBook(d) == [index |-> 0, currentWordIndex |-> 0, currentPdfPage |-> 1, totalReadWords |-> 0,
               tokenCount |-> Len(DocContent(d).tokens), wordCount |-> DocContent(d).wordCount]
\* contentCache.get(bookId): nothing, or the entry set by ensureBookContent
\* rawText: whether the entry's rawText is a non-empty string
NotCached == [has |-> FALSE, rawText |-> FALSE, tokens |-> <<>>, pageRanges |-> <<>>]
CacheEntry(d) == [has |-> TRUE, rawText |-> TRUE, tokens |-> DocContent(d).tokens,
                  pageRanges |-> DocContent(d).pageRanges]
\* wordIndexCache.get(bookId): nothing, or the map built by getWordIndexMap
NotMapped == [has |-> FALSE, wordIndexToToken |-> <<>>, tokenIndexToWord |-> <<>>]
WordIndexMap(toks) ==
  [has |-> TRUE, wordIndexToToken |-> wordIndexToToken(toks, 1),
   tokenIndexToWord |-> tokenIndexToWord(toks)]
NoOp == "init"

\* the handlers that run on a user input; the others are callbacks
UserOps == {"openBook", "noteJump", "pause", "play", "stepWords", "stepSentence",
            "bookmarkJump", "pdfCanvasClick", "pdfPageJump", "pdfPageView",
            "scheduleScrub", "createBook", "importData"}

\* the program state the handlers read and write, as one record
Cur ==
  [sel |-> selectedBookId, cache |-> contentCache, books |-> books, reader |-> reader,
   ticks |-> tickTimers, stops |-> stopTimers, sync |-> pdfSync, scrub |-> scrub,
   pdf |-> pdfState, pdfLoads |-> pdfLoads, loads |-> contentLoads, now |-> now,
   cfg |-> settings, lib |-> library, bookTokens |-> bookTokens, idbReady |-> idbReady,
   idb |-> idbContents, wic |-> wordIndexCache]

\* the bounds of the model
WithinBounds(s) ==
  /\ Cardinality(s.loads) <= MaxLoads
  /\ Cardinality(s.pdfLoads) <= MaxPdfLoads
  /\ Len(s.ticks) <= MaxTimers
  /\ Len(s.stops) <= MaxTimers
  /\ \A d \in DOMAIN s.books : s.books[d].totalReadWords <= MaxRead

Commit(s, op) ==
  /\ selectedBookId' = s.sel
  /\ contentCache' = s.cache
  /\ books' = s.books
  /\ reader' = s.reader
  /\ tickTimers' = s.ticks
  /\ stopTimers' = s.stops
  /\ pdfSync' = s.sync
  /\ scrub' = s.scrub
  /\ pdfState' = s.pdf
  /\ pdfLoads' = s.pdfLoads
  /\ contentLoads' = s.loads
  /\ now' = s.now
  /\ settings' = s.cfg
  /\ library' = s.lib
  /\ bookTokens' = s.bookTokens
  /\ idbReady' = s.idbReady
  /\ idbContents' = s.idb
  /\ wordIndexCache' = s.wic
  /\ lastOp' = op
  /\ op \in UserOps => inputs < MaxInputs
  /\ inputs' = IF op \in UserOps THEN inputs + 1 ELSE inputs
  /\ UNCHANGED <<tokVars, pdfVars>>
  /\ WithinBounds(s)

\* JavaScript truthiness of a number-or-null
Falsy(x) == x = Null \/ x = 0

RemoveAt(q, i) == SubSeq(q, 1, i - 1) \o SubSeq(q, i + 1, Len(q))

(***************************************************************************)
(* Content accessors, lines 3071-3085 and 3159-3163.                       *)
(***************************************************************************)
getCachedTokens(s, d) == IF s.cache[d].has THEN s.cache[d].tokens ELSE s.bookTokens[d]

\* cached.tokenCount, else book.tokenCount set by createBookFromText
getTokenCountForBook(s, d) ==
  IF s.cache[d].has THEN Len(s.cache[d].tokens) ELSE s.books[d].tokenCount

\* lines 3025-3043: the cached map is returned as it is; a new one is built
\* from the tokens at hand and cached, unless there are none
getWordIndexMap(s, d) ==
  IF s.wic[d].has \/ getCachedTokens(s, d) = <<>> THEN s
  ELSE [s EXCEPT !.wic[d] = WordIndexMap(getCachedTokens(s, d))]

\* lines 3045-3050
getTotalWordsForBook(s, d) == s.books[d].wordCount

getPageRangesForBook(s, d) == IF s.cache[d].has THEN s.cache[d].pageRanges ELSE <<>>

\* lines 3994-3999
getCurrentTokenIndex(s) ==
  IF s.sel = NoBook THEN 0
  ELSE clamp(s.books[s.sel].index, 0, Max(0, getTokenCountForBook(s, s.sel) - 1))

(***************************************************************************)
(* Content store, lines 291-312, 892-910 and 2763-2884.                    *)
(***************************************************************************)

\* lines 892-910; the put of line 908 and the cache entry of line 909 in one step
persistBookContentToIdb(s, d, rawText, toks, pageRanges) ==
  IF ~s.idbReady THEN s
  ELSE LET payload == [has |-> TRUE, rawText |-> rawText, tokens |-> toks,
                       pageRanges |-> pageRanges]
       IN [s EXCEPT !.wic[d] = NotMapped, !.idb[d] = payload, !.cache[d] = payload]

\* lines 2792-2884.  A legacy book is one that carries book.tokens; upsertBook
\* stores the record it is given, so the upsert of lines 2879-2882 writes back
\* the book read at line 2796 with the two counts replaced.
ensureBookContent(s, d) ==
  IF s.cache[d].has \/ d \notin s.lib THEN s
  ELSE LET book == s.books[d]
           content == s.idb[d]
           fromIdb == s.idbReady /\ content.has /\ (content.rawText \/ content.tokens # <<>>)
           stream == IF fromIdb THEN content.tokens ELSE s.bookTokens[d]
           merged == mergePunctuationTokens(stream)
           wordIndex == getWordIndexForTokenIndexFromTokens(stream, book.index)
           updatedIndex == getTokenIndexForWordIndexFromTokens(merged.tokens, wordIndex)
           remapped == [book EXCEPT !.tokenCount = Len(merged.tokens),
                                    !.wordCount = countWords(merged.tokens),
                                    !.index = updatedIndex,
                                    !.currentWordIndex = wordIndex]
           s1 == IF merged.changed THEN [s EXCEPT !.books[d] = remapped] ELSE s
       IN IF fromIdb
          THEN IF merged.changed
               THEN persistBookContentToIdb(s1, d, content.rawText, merged.tokens,
                                            content.pageRanges)
               ELSE [s EXCEPT !.cache[d] = content,
                              !.books[d].tokenCount =
                                 IF Falsy(@) THEN Len(content.tokens) ELSE @]
          ELSE IF s.bookTokens[d] = <<>> THEN s
          ELSE LET entry == [has |-> TRUE, rawText |-> FALSE, tokens |-> merged.tokens,
                             pageRanges |-> <<>>]
                   s2 == persistBookContentToIdb([s1 EXCEPT !.cache[d] = entry], d, FALSE,
                                                 merged.tokens, <<>>)
               IN IF Falsy(book.tokenCount) \/ Falsy(book.wordCount)
                  THEN [s2 EXCEPT !.books[d] =
                          [book EXCEPT !.wordCount = countWords(merged.tokens),
                                       !.tokenCount = Len(merged.tokens),
                                       !.index = clamp(@, 0, Max(0, Len(merged.tokens) - 1))]]
                  ELSE s2

\* lines 2763-2790 and the upsertBook of the import handlers (line 1614)
createBookFromText(s, d, text) ==
  LET toks == tokenize(normalizeText(text))
      book == [index |-> 0, currentWordIndex |-> 0, currentPdfPage |-> 1,
               totalReadWords |-> 0, tokenCount |-> Len(toks),
               wordCount |-> countWords(toks)]
      s1 == persistBookContentToIdb(s, d, text # <<>>, toks, <<>>)
  IN [s1 EXCEPT !.lib = @ \cup {d}, !.books[d] = book, !.bookTokens[d] = <<>>]

\* lines 2893-3016: the progress of every book is computed (line 2971), which
\* asks for its word index map
renderLibraryList(s) ==
  [s EXCEPT !.wic = [d \in Docs |-> IF d \in s.lib THEN getWordIndexMap(s, d).wic[d]
                                    ELSE s.wic[d]]]

(***************************************************************************)
(* PDF viewer, lines 3211-3224, 3431-3472, 3490-3519.                      *)
(***************************************************************************)
\* loadPdfForBook up to the await of line 3511
loadPdfForBook(s, d) ==
  IF ~s.cache[d].has THEN s
  ELSE IF s.cache[d].pageRanges = <<>> THEN [s EXCEPT !.pdf = NoPdf]
  ELSE IF s.pdf.currentBookId = d /\ s.pdf.doc THEN s
  ELSE [s EXCEPT !.pdf = NoPdf,
                 !.pdfLoads = @ \cup {[doc |-> d, page |-> s.books[d].currentPdfPage]}]

\* renderReader, lines 3756-3811: what it does to the state
renderReader(s) ==
  IF s.sel = NoBook THEN s
  ELSE IF getCachedTokens(s, s.sel) = <<>>
       THEN IF s.cache[s.sel].has
            THEN loadPdfForBook(s, s.sel)
            ELSE [s EXCEPT !.loads = @ \cup {[doc |-> s.sel, then |-> "render", idx |-> 0]}]
       ELSE loadPdfForBook(getWordIndexMap(s, s.sel), s.sel)

\* renderPdfPage, lines 3431-3472: the page is shown once rendered
renderPdfPage(s, pageNumber) ==
  IF ~s.pdf.doc THEN s
  ELSE [s EXCEPT !.pdf.page = clamp(pageNumber, 1, s.pdf.total)]

(***************************************************************************)
(* Scheduler, lines 4066-4132 and 4202-4288.                               *)
(***************************************************************************)
\* lines 4103-4132
stopReader(s, hardStop) ==
  LET kept == SelectSeq(s.ticks, LAMBDA t : ~t.handle)
      started == IF Falsy(s.reader.startedAt) THEN s.now ELSE s.reader.startedAt
      r0 == IF s.reader.isPlaying
            THEN [s.reader EXCEPT !.elapsedBefore = @ + (s.now - started)]
            ELSE s.reader
      r1 == [r0 EXCEPT !.isPlaying = FALSE, !.nextTickAt = Null]
      r2 == IF hardStop
            THEN [r1 EXCEPT !.startedAt = Null, !.elapsedBefore = 0,
                            !.sessionWords = 0, !.pauses = 0]
            ELSE r1
  IN [s EXCEPT !.ticks = kept, !.reader = r2]

\* variant: a fixed interval from the time the callback ran
scheduleNextTickFromNow(s, extraDelayMs) ==
  IF ~s.reader.isPlaying THEN s
  ELSE LET delay == Max(0, getBaseDelayMs(s.cfg) + extraDelayMs)
           older == [i \in 1..Len(s.ticks) |-> [s.ticks[i] EXCEPT !.handle = FALSE]]
       IN [s EXCEPT !.reader.nextTickAt = s.now + delay,
                    !.ticks = Append(older, [due |-> s.now + delay, handle |-> TRUE,
                                             doc |-> s.sel])]

\* lines 4202-4210
scheduleNextTick(s, extraDelayMs) ==
  IF ~s.reader.isPlaying THEN s
  ELSE LET delay == Max(0, getBaseDelayMs(s.cfg) + extraDelayMs)
           next == IF Falsy(s.reader.nextTickAt) THEN s.now + delay
                   ELSE s.reader.nextTickAt + delay
           timeout == Max(0, next - s.now)
           older == [i \in 1..Len(s.ticks) |-> [s.ticks[i] EXCEPT !.handle = FALSE]]
       IN [s EXCEPT !.reader.nextTickAt = next,
                    !.ticks = Append(older, [due |-> s.now + timeout, handle |-> TRUE,
                                             doc |-> s.sel])]

\* variant: a resume leaves the start time of the session as it was
startReaderKeepsStart(s) ==
  IF s.sel = NoBook THEN s
  ELSE IF getCachedTokens(s, s.sel) = <<>>
       THEN [s EXCEPT !.loads = @ \cup {[doc |-> s.sel, then |-> "start", idx |-> 0]}]
       ELSE LET r == IF Falsy(s.reader.startedAt)
                     THEN [s.reader EXCEPT !.isPlaying = TRUE, !.startedAt = s.now,
                                           !.elapsedBefore = 0, !.sessionWords = 0,
                                           !.pauses = 0, !.nextTickAt = s.now]
                     ELSE [s.reader EXCEPT !.isPlaying = TRUE, !.nextTickAt = s.now]
            IN scheduleNextTick(
                 [s EXCEPT !.reader = r,
                           !.stops = [i \in DOMAIN @ |-> [@[i] EXCEPT !.stale = TRUE]]], 0)

\* lines 4066-4101
startReader(s) ==
  IF s.sel = NoBook THEN s
  ELSE IF getCachedTokens(s, s.sel) = <<>>
       THEN [s EXCEPT !.loads = @ \cup {[doc |-> s.sel, then |-> "start", idx |-> 0]}]
       ELSE LET r == IF Falsy(s.reader.startedAt)
                     THEN [s.reader EXCEPT !.isPlaying = TRUE, !.startedAt = s.now,
                                           !.elapsedBefore = 0, !.sessionWords = 0,
                                           !.pauses = 0, !.nextTickAt = s.now]
                     ELSE [s.reader EXCEPT !.isPlaying = TRUE, !.startedAt = s.now,
                                           !.nextTickAt = s.now]
            IN scheduleNextTick(
                 [s EXCEPT !.reader = r,
                           !.stops = [i \in DOMAIN @ |-> [@[i] EXCEPT !.stale = TRUE]]], 0)

\* lines 3583-3596
schedulePdfSync(s, page) ==
  IF page = 0 \/ ~s.pdf.doc THEN s
  ELSE IF s.sel = NoBook \/ s.pdf.currentBookId # s.sel THEN s
  ELSE IF s.pdf.page = page THEN s
  ELSE IF s.sync.pending THEN [s EXCEPT !.sync.target = page]
  ELSE [s EXCEPT !.sync = [pending |-> TRUE, due |-> s.now + 140, target |-> page,
                           doc |-> s.sel]]

\* lines 4001-4052
setTokenIndex(s, idx, fromPlayback) ==
  IF s.sel = NoBook THEN s
  ELSE LET d == s.sel
           total == Max(0, getTokenCountForBook(s, d))
           clamped == clamp(idx, 0, Max(0, total - 1))
           toks == getCachedTokens(s, d)
           wordIndex == getWordIndexForTokenIndex(toks, clamped)
           nextPdfPage == getPdfPageForWordIndex(getPageRangesForBook(s, d), wordIndex)
           counted == fromPlayback /\ clamped + 1 \in DOMAIN toks
                      /\ toks[clamped + 1].kind = "word"
           s1 == [s EXCEPT !.books[d].index = clamped,
                           !.books[d].currentWordIndex = wordIndex,
                           !.books[d].currentPdfPage = nextPdfPage,
                           !.books[d].totalReadWords = IF counted THEN @ + 1 ELSE @]
           s2 == renderReader(s1)
       IN IF getPageRangesForBook(s2, d) # <<>> THEN schedulePdfSync(s2, nextPdfPage) ELSE s2

\* lines 3598-3606
syncRsvpToPdfPage(s, page) ==
  IF s.sel = NoBook THEN s
  ELSE LET wordStart == getWordStartForPdfPage(getPageRangesForBook(s, s.sel), page)
           tokenIndex == getTokenIndexForWordIndex(getCachedTokens(s, s.sel), wordStart)
           s1 == IF s.reader.isPlaying THEN stopReader(s, FALSE) ELSE s
       IN setTokenIndex(s1, tokenIndex, FALSE)

\* lines 3561-3573
setPdfPage(s, page, userInitiated, fromRsvpSync) ==
  IF s.sel = NoBook \/ ~s.pdf.doc THEN s
  ELSE LET clampedPage == clamp(page, 1, s.pdf.total)
           s1 == renderPdfPage(s, clampedPage)
           s2 == [s1 EXCEPT !.books[s.sel].currentPdfPage = clampedPage]
       IN IF userInitiated /\ s.cfg.syncRsvpToPage /\ ~fromRsvpSync
          THEN syncRsvpToPdfPage(s2, clampedPage)
          ELSE s2

\* lines 4269-4288: the number of words of the chunk that starts at startIndex
RECURSIVE chunkWordCount(_, _, _)
chunkWordCount(toks, i, room) ==
  IF room = 0 \/ i + 1 > Len(toks) \/ toks[i + 1].kind # "word" THEN 0
  ELSE 1 + chunkWordCount(toks, i + 1, room - 1)

getChunkInfo(toks, startIndex, chunkSize) ==
  LET n == chunkWordCount(toks, startIndex, chunkSize)
  IN [startIndex |-> startIndex, endIndex |-> startIndex + Max(n, 1) - 1, wordCount |-> n]

\* variant: no stop is scheduled on the last token
advancePlaybackNoStop(s) ==
  IF ~s.reader.isPlaying THEN s
  ELSE IF s.sel = NoBook THEN stopReader(s, TRUE)
  ELSE LET toks == getCachedTokens(s, s.sel)
           idx0 == getCurrentTokenIndex(s)
       IN IF idx0 >= Len(toks) THEN stopReader(s, TRUE)
          ELSE LET idx1 == clamp(idx0 + 1, 0, Max(0, Len(toks) - 1))
                   chunkSize == clamp(s.cfg.chunkSize, 1, 4)
                   chunked == toks[idx1 + 1].kind = "word" /\ chunkSize > 1
                   info == getChunkInfo(toks, idx1, chunkSize)
                   idx == IF chunked THEN info.endIndex ELSE idx1
                   tok == toks[idx + 1]
                   chunkWords == IF chunked THEN info.wordCount ELSE 1
                   s1 == IF tok.kind = "word"
                         THEN [s EXCEPT !.reader.sessionWords = @ + chunkWords]
                         ELSE s
                   s2 == setTokenIndex(s1, idx, tok.kind = "word")
                   pauseInfo == getPauseInfoForToken(s.cfg, tok)
                   extra == pauseInfo.extraDelay
                   s3 == IF pauseInfo.countPause
                         THEN [s2 EXCEPT !.reader.pauses = @ + 1]
                         ELSE s2
               IN IF idx >= Len(toks) - 1
                  THEN scheduleNextTick(s3, extra + getBaseDelayMs(s.cfg))
                  ELSE scheduleNextTick(s3, extra)

\* lines 4212-4267, run by a playback tick timer
advancePlayback(s) ==
  IF ~s.reader.isPlaying THEN s
  ELSE IF s.sel = NoBook THEN stopReader(s, TRUE)
  ELSE LET toks == getCachedTokens(s, s.sel)
           idx0 == getCurrentTokenIndex(s)
       IN IF idx0 >= Len(toks) THEN stopReader(s, TRUE)
          ELSE LET idx1 == clamp(idx0 + 1, 0, Max(0, Len(toks) - 1))
                   chunkSize == clamp(s.cfg.chunkSize, 1, 4)
                   chunked == toks[idx1 + 1].kind = "word" /\ chunkSize > 1
                   info == getChunkInfo(toks, idx1, chunkSize)
                   idx == IF chunked THEN info.endIndex ELSE idx1
                   tok == toks[idx + 1]
                   chunkWords == IF chunked THEN info.wordCount ELSE 1
                   s1 == IF tok.kind = "word"
                         THEN [s EXCEPT !.reader.sessionWords = @ + chunkWords]
                         ELSE s
                   s2 == setTokenIndex(s1, idx, tok.kind = "word")
                   pauseInfo == getPauseInfoForToken(s.cfg, tok)
                   extra == pauseInfo.extraDelay
                   s3 == IF pauseInfo.countPause
                         THEN [s2 EXCEPT !.reader.pauses = @ + 1]
                         ELSE s2
               IN IF idx >= Len(toks) - 1
                  THEN LET s4 == scheduleNextTick(s3, extra + getBaseDelayMs(s.cfg))
                       IN [s4 EXCEPT !.stops = Append(@, [due |-> s.now + extra + 250,
                                                          doc |-> s.sel,
                                                          stale |-> FALSE])]
                  ELSE scheduleNextTick(s3, extra)

(***************************************************************************)
(* Manual navigation, lines 4290-4346, 3860-3880.                          *)
(***************************************************************************)
\* lines 4290-4304
stepWords(s, delta) ==
  IF s.sel = NoBook THEN s
  ELSE LET s1 == IF s.reader.isPlaying THEN stopReader(s, FALSE) ELSE s
           idx == getCurrentTokenIndex(s1)
           toks == getCachedTokens(s1, s1.sel)
       IN IF toks = <<>> THEN s1
          ELSE renderReader(setTokenIndex(s1, clamp(idx + delta, 0, Max(0, Len(toks) - 1)),
                                          FALSE))

\* lines 4315-4324
isSentenceEnd(toks, i) ==
  /\ i + 1 \in DOMAIN toks
  /\ LET t == toks[i + 1]
         cleaned == stripTrailingWrappers(t.t)
     IN IF t.kind = "punct"
        THEN t.t # <<>> /\ \A k \in 1..Len(t.t) : IsHardPunct(t.t[k])
        ELSE IF t.kind = "word"
             THEN cleaned # <<>> /\ IsHardPunct(cleaned[Len(cleaned)])
             ELSE FALSE

\* line 4332
RECURSIVE skipPunctLeft(_, _)
skipPunctLeft(toks, i) ==
  IF i > 0 /\ i + 1 \in DOMAIN toks /\ toks[i + 1].kind \in {"punct", "para"}
  THEN skipPunctLeft(toks, i - 1) ELSE i

\* line 4334
RECURSIVE findEndLeft(_, _)
findEndLeft(toks, i) ==
  IF i > 0 /\ ~isSentenceEnd(toks, i) THEN findEndLeft(toks, i - 1) ELSE i

\* line 4339
RECURSIVE findEndRight(_, _)
findEndRight(toks, i) ==
  IF i < Len(toks) - 1 /\ ~isSentenceEnd(toks, i) THEN findEndRight(toks, i + 1) ELSE i

\* variant: the step lands on the sentence end itself
stepSentenceOntoEnd(s, dir) ==
  IF s.sel = NoBook THEN s
  ELSE LET s1 == IF s.reader.isPlaying THEN stopReader(s, FALSE) ELSE s
           idx == getCurrentTokenIndex(s1)
           toks == getCachedTokens(s1, s1.sel)
           i == IF dir < 0 THEN findEndLeft(toks, skipPunctLeft(toks, idx - 1))
                ELSE findEndRight(toks, idx + 1)
           target == clamp(i, 0, Len(toks) - 1)
       IN renderReader(setTokenIndex(s1, target, FALSE))

\* lines 4306-4346
stepSentence(s, dir) ==
  IF s.sel = NoBook THEN s
  ELSE LET s1 == IF s.reader.isPlaying THEN stopReader(s, FALSE) ELSE s
           idx == getCurrentTokenIndex(s1)
           toks == getCachedTokens(s1, s1.sel)
           i == IF dir < 0 THEN findEndLeft(toks, skipPunctLeft(toks, idx - 1))
                ELSE findEndRight(toks, idx + 1)
           target == clamp(i + 1, 0, Len(toks) - 1)
       IN renderReader(setTokenIndex(s1, target, FALSE))

\* lines 3872-3880
applyScrub(s, wordIndex) ==
  IF s.sel = NoBook THEN s
  ELSE LET totalWords == Max(1, getTotalWordsForBook(s, s.sel))
           clamped == clamp(wordIndex, 0, Max(0, totalWords - 1))
           tokenIndex == getTokenIndexForWordIndex(getCachedTokens(s, s.sel), clamped)
       IN setTokenIndex(s, tokenIndex, FALSE)

\* variant: a request made while a frame is pending is dropped
scheduleScrubKeepsFirst(s, value, commit) ==
  IF s.scrub.pending
  THEN s
  ELSE [s EXCEPT !.scrub = [pending |-> TRUE, value |-> value, commit |-> commit,
                            doc |-> s.sel, calls |-> 1]]

\* lines 3860-3870, up to the requestAnimationFrame
scheduleScrub(s, value, commit) ==
  IF s.scrub.pending
  THEN [s EXCEPT !.scrub.value = value, !.scrub.commit = commit, !.scrub.calls = @ + 1]
  ELSE [s EXCEPT !.scrub = [pending |-> TRUE, value |-> value, commit |-> commit,
                            doc |-> s.sel, calls |-> 1]]

(***************************************************************************)
(* Opening a document, lines 3711-3754 and 2792-2836, 4595-4620.           *)
(***************************************************************************)
\* openBookInReader up to the await of ensureBookContent, line 3746
openBookInReader(s, d, then, idx) ==
  LET s1 == [stopReader(s, TRUE) EXCEPT !.sel = d]
  IN [s1 EXCEPT !.loads = @ \cup {[doc |-> d, then |-> then, idx |-> idx]}]

\* the code that runs once ensureBookContent has resolved
continueAfterContent(s, l) ==
  IF l.then = "start" THEN startReader(s)
  ELSE IF l.then = "note"
       THEN setTokenIndex(stepWords(renderLibraryList(renderReader(s)), 0), l.idx, FALSE)
       ELSE IF l.then = "open" THEN renderLibraryList(renderReader(s))
       ELSE renderReader(s)

\* ensureBookContent resolves: at once when the content is cached (line 2794),
\* after the store has answered otherwise (lines 2801-2833)
resolveContent(s, l) ==
  continueAfterContent([ensureBookContent(s, l.doc) EXCEPT !.loads = @ \ {l}], l)

\* ensureBookContent awaits the store (line 2801) only when the content is
\* not cached and the store is ready; otherwise its caller continues at once
ResolvesAtOnce(s, d) == s.cache[d].has \/ ~s.idbReady

(***************************************************************************)
(* Actions of the scheduler model.                                         *)
(***************************************************************************)
\* every pending timer's deadline
PendingDues ==
  {tickTimers[i].due : i \in DOMAIN tickTimers}
    \cup {stopTimers[i].due : i \in DOMAIN stopTimers}
    \cup (IF pdfSync.pending THEN {pdfSync.due} ELSE {})

\* the event loop runs a timer callback once it is due, earliest deadline first
CanFire(due) == due <= now /\ \A other \in PendingDues : due <= other

OpenBook(d) ==
  LET l == [doc |-> d, then |-> "open", idx |-> 0]
      s1 == openBookInReader(Cur, d, "open", 0)
  IN /\ d \in library
     /\ Commit(IF ResolvesAtOnce(s1, d) THEN resolveContent(s1, l) ELSE s1, "openBook")

\* lines 4608-4619
OpenNote(d, i) ==
  LET l == [doc |-> d, then |-> "note", idx |-> i]
      s1 == openBookInReader(Cur, d, "note", i)
  IN /\ d \in library
     /\ Commit(IF ResolvesAtOnce(s1, d) THEN resolveContent(s1, l) ELSE s1, "noteJump")

PdfLoaded(l) ==
  /\ l \in pdfLoads
  /\ LET total == Max(1, Len(contentCache[l.doc].pageRanges))
     IN Commit([Cur EXCEPT !.pdfLoads = @ \ {l},
                           !.pdf = [doc |-> TRUE, currentBookId |-> l.doc,
                                    page |-> clamp(l.page, 1, total), total |-> total]],
               "pdfLoaded")

TogglePlay ==
  /\ selectedBookId # NoBook
  /\ IF reader.isPlaying
     THEN Commit(stopReader(Cur, FALSE), "pause")
     ELSE LET s1 == startReader(Cur)
              l == [doc |-> selectedBookId, then |-> "start", idx |-> 0]
          IN Commit(IF ~s1.reader.isPlaying /\ l \in s1.loads /\ ResolvesAtOnce(s1, l.doc)
                    THEN resolveContent(s1, l) ELSE s1, "play")

\* the store answers a pending ensureBookContent, or a retry that a missing
\* stream has queued (lines 3796 and 4072) runs again
ContentResolved(l) ==
  /\ l \in contentLoads
  /\ Commit(resolveContent(Cur, l), "contentResolved")

\* the paste import, lines 1598-1620: the book is created, stored and opened
PasteAdd(d, text) ==
  /\ d \notin library
  /\ LET l == [doc |-> d, then |-> "open", idx |-> 0]
         s1 == openBookInReader(createBookFromText(Cur, d, text), d, "open", 0)
     IN Commit(IF ResolvesAtOnce(s1, d) THEN resolveContent(s1, l) ELSE s1, "createBook")

\* importData, lines 4760-4790, merging a backup that holds the content of
\* one book of the library
ImportData(d, toks) ==
  /\ d \in library
  /\ LET entry == [has |-> TRUE, rawText |-> TRUE, tokens |-> toks, pageRanges |-> <<>>]
         s1 == [stopReader(Cur, TRUE) EXCEPT !.idb[d] = IF idbReady THEN entry ELSE @,
                                             !.cache[d] = entry,
                                             !.sel = NoBook]
     IN Commit(renderLibraryList(s1), "importData")

\* lines 1637-1638: the library list is drawn again
RenderLibrary ==
  /\ library # {}
  /\ Commit(renderLibraryList(Cur), "renderLibrary")

StepWords(delta) ==
  /\ selectedBookId # NoBook
  /\ Commit(stepWords(Cur, delta), "stepWords")

StepSentence(dir) ==
  /\ selectedBookId # NoBook
  /\ Commit(stepSentence(Cur, dir), "stepSentence")

\* lines 4511-4515
BookmarkJump(i) ==
  /\ selectedBookId # NoBook
  /\ LET s1 == IF reader.isPlaying THEN stopReader(Cur, FALSE) ELSE Cur
     IN Commit(setTokenIndex(s1, i, FALSE), "bookmarkJump")

\* lines 1343-1357
PdfCanvasClick ==
  /\ selectedBookId # NoBook
  /\ LET ranges == getPageRangesForBook(Cur, selectedBookId)
         hits == {k \in DOMAIN ranges : ranges[k].page = pdfState.page}
     IN /\ hits # {}
        /\ LET range == ranges[CHOOSE k \in hits : \A j \in hits : k <= j]
               s1 == IF reader.isPlaying THEN stopReader(Cur, FALSE) ELSE Cur
               tokenIndex == getTokenIndexForWordIndex(getCachedTokens(s1, selectedBookId),
                                                       range.start)
           IN Commit(setTokenIndex(s1, tokenIndex, FALSE), "pdfCanvasClick")

\* lines 1373-1419
PdfPageJump(p) ==
  /\ selectedBookId # NoBook
  /\ pdfState.doc
  /\ p \in 1..pdfState.total
  /\ Commit(setPdfPage(Cur, p, TRUE, FALSE),
            IF settings.syncRsvpToPage THEN "pdfPageJump" ELSE "pdfPageView")

\* lines 1693-1696
SliderPointerDown ==
  /\ selectedBookId # NoBook
  /\ reader.isPlaying
  /\ Commit(stopReader(Cur, FALSE), "pause")

\* lines 1698-1707
SliderInput(value, commit) ==
  /\ selectedBookId # NoBook
  /\ value \in 0..Max(0, getTotalWordsForBook(Cur, selectedBookId) - 1)
  /\ Commit(scheduleScrub(Cur, value, commit), "scheduleScrub")

\* the animation-frame callback of scheduleScrub, lines 3863-3869
ScrubFrame ==
  /\ scrub.pending
  /\ Commit(applyScrub([Cur EXCEPT !.scrub = NoScrub], scrub.value), "applyScrub")

\* a playback tick timer fires
TickFire(i) ==
  /\ i \in DOMAIN tickTimers
  /\ CanFire(tickTimers[i].due)
  /\ Commit(advancePlayback([Cur EXCEPT !.ticks = RemoveAt(@, i)]), "advancePlayback")

\* the end-of-stream timer of line 4262 fires
StopFire(i) ==
  /\ i \in DOMAIN stopTimers
  /\ CanFire(stopTimers[i].due)
  /\ Commit(stopReader([Cur EXCEPT !.stops = RemoveAt(@, i)], TRUE), "endStop")

\* the page-sync timer fires, lines 3589-3595
PdfSyncFire ==
  /\ pdfSync.pending
  /\ CanFire(pdfSync.due)
  /\ Commit(setPdfPage([Cur EXCEPT !.sync = NoSync], pdfSync.target, FALSE, TRUE),
            "pdfSync")

\* d ms pass.  The program only ever subtracts timestamps, so the clock reading
\* is kept fixed and every stored timestamp moves back by d instead: all the
\* differences the code computes are the ones it would compute with a running
\* clock.  The code reads the value of startedAt only while isPlaying (lines
\* 4111 and 4138) and otherwise only tests that it is set (line 4084), so the
\* startedAt of a stopped session stays as it is.
Earlier(t, d) == IF t = Null THEN Null ELSE t - d

\* Time passes up to the next deadline, or by one lag while the event loop
\* is late running a due callback; no callback is run more than MaxLate late.
PassTimeBy ==
  LET later == {d \in PendingDues : d > now}
      next == {d - now : d \in {e \in later : \A f \in later : e <= f}}
      overdue == {d \in PendingDues : d <= now}
  IN {d \in (IF overdue # {} THEN next \cup {LagMs} ELSE next) :
        /\ \A e \in overdue : now - e + d <= MaxLate
        /\ reader.isPlaying =>
             reader.elapsedBefore + (now - reader.startedAt) + d <= MaxSession}

PassTime ==
  \E d \in PassTimeBy :
       /\ tickTimers' = [i \in DOMAIN tickTimers |-> [tickTimers[i] EXCEPT !.due = @ - d]]
       /\ stopTimers' = [i \in DOMAIN stopTimers |-> [stopTimers[i] EXCEPT !.due = @ - d]]
       /\ pdfSync' = [pdfSync EXCEPT !.due = Earlier(@, d)]
       /\ reader' = [reader EXCEPT !.startedAt = IF reader.isPlaying THEN Earlier(@, d) ELSE @,
                                   !.nextTickAt = Earlier(@, d)]
       /\ lastOp' = "passTime"
       /\ UNCHANGED <<selectedBookId, contentCache, books, scrub, pdfState, pdfLoads,
                      contentLoads, now, settings, inputs, library, bookTokens, idbReady,
                      idbContents, wordIndexCache, tokVars, pdfVars>>

\* the settings the reader runs with: below and above 480 wpm, where the tick
\* re-armed on the final token (line 4261) comes after and before the stop
\* timer of line 4262, and with auto-pause switched off
SettingsSamples ==
  { [wpm |-> 300, pause |-> 80, autoPause |-> TRUE, chunkSize |-> 1, syncRsvpToPage |-> TRUE],
    [wpm |-> 600, pause |-> 80, autoPause |-> TRUE, chunkSize |-> 2, syncRsvpToPage |-> FALSE],
    [wpm |-> 600, pause |-> 80, autoPause |-> FALSE, chunkSize |-> 1, syncRsvpToPage |-> FALSE] }

\* the token index of the note and of the bookmark stored for a document
NoteIndex(d) == IF d = "A" THEN 2 ELSE 1
BookmarkIndex(d) == IF d = "A" THEN 4 ELSE 0

RdrRest ==
  /\ selectedBookId = NoBook
  /\ contentCache = [d \in Docs |-> NotCached]
  /\ books = [d \in Docs |-> NewBook(d)]
  /\ reader = NoReader
  /\ tickTimers = <<>> /\ stopTimers = <<>>
  /\ pdfSync = NoSync /\ scrub = NoScrub
  /\ pdfState = NoPdf /\ pdfLoads = {} /\ contentLoads = {}
  /\ now = StartTime
  /\ lastOp = NoOp
  /\ inputs = 0
  /\ library = {} /\ bookTokens = [d \in Docs |-> <<>>]
  /\ idbReady = FALSE /\ idbContents = [d \in Docs |-> NotCached]
  /\ wordIndexCache = [d \in Docs |-> NotMapped]

\* the reader after both documents have been opened once: their content is
\* in the cache, document A is open and its PDF is loaded
RdrInit ==
  /\ selectedBookId = "A"
  /\ contentCache = [d \in Docs |-> CacheEntry(d)]
  /\ books = [d \in Docs |-> NewBook(d)]
  /\ reader = NoReader
  /\ tickTimers = <<>> /\ stopTimers = <<>>
  /\ pdfSync = NoSync /\ scrub = NoScrub
  /\ pdfState = [doc |-> TRUE, currentBookId |-> "A", page |-> 1,
                 total |-> Len(DocContent("A").pageRanges)]
  /\ pdfLoads = {} /\ contentLoads = {}
  /\ now = StartTime
  /\ lastOp = NoOp
  /\ inputs = 0
  /\ settings \in SettingsSamples
  /\ library = Docs /\ bookTokens = [d \in Docs |-> <<>>]
  /\ idbReady = TRUE
  /\ idbContents = [d \in Docs |-> CacheEntry(d)]
  /\ wordIndexCache = [d \in Docs |-> WordIndexMap(DocContent(d).tokens)]

RestSettings ==
  [wpm |-> 300, pause |-> 80, autoPause |-> TRUE, chunkSize |-> 1, syncRsvpToPage |-> FALSE]

\* texts given to the paste import, and streams found in a legacy book, in
\* the store or in a backup file (as older versions wrote them)
TextSamples == { <<"a">>, <<"a", SP, "a", ".">>, <<".">> }
StreamSamples ==
  { <<WordTok(<<"a">>), PunctTok(<<".">>), WordTok(<<"a">>)>>,
    <<WordTok(<<"a">>), WordTok(<<"a">>)>>,
    <<PunctTok(<<".">>), WordTok(<<"a">>)>>,
    <<PunctTok(<<".">>), ParaTok>> }

\* startup: the library is empty, or holds one book, either a legacy book
\* that carries its tokens or a book whose content is in the store
StoreInit ==
  /\ TokRest /\ PdfRest
  /\ selectedBookId = NoBook
  /\ contentCache = [d \in Docs |-> NotCached]
  /\ reader = NoReader
  /\ tickTimers = <<>> /\ stopTimers = <<>>
  /\ pdfSync = NoSync /\ scrub = NoScrub
  /\ pdfState = NoPdf /\ pdfLoads = {} /\ contentLoads = {}
  /\ now = StartTime
  /\ lastOp = NoOp
  /\ inputs = 0
  /\ settings = RestSettings
  /\ wordIndexCache = [d \in Docs |-> NotMapped]
  /\ idbReady \in BOOLEAN
  /\ \E kind \in {"empty", "legacy", "stored"} :
       \E toks \in (IF kind = "empty" THEN {<<>>} ELSE StreamSamples) :
         \E i \in 0 .. Max(0, Len(toks) - 1) :
           \E wc \in (IF kind = "legacy" THEN {0, countWords(toks)} ELSE {countWords(toks)}) :
             /\ kind = "stored" => idbReady
             /\ library = (IF kind = "empty" THEN {} ELSE {"A"})
             /\ bookTokens = [d \in Docs |-> IF d = "A" /\ kind = "legacy" THEN toks ELSE <<>>]
             /\ idbContents =
                  [d \in Docs |-> IF d = "A" /\ kind = "stored"
                                  THEN [has |-> TRUE, rawText |-> TRUE, tokens |-> toks,
                                        pageRanges |-> <<>>]
                                  ELSE NotCached]
             /\ books = [d \in Docs |->
                           [index |-> IF d = "A" THEN i ELSE 0, currentWordIndex |-> 0,
                            currentPdfPage |-> 1, totalReadWords |-> 0,
                            tokenCount |-> IF d = "A" THEN Len(toks) ELSE 0,
                            wordCount |-> IF d = "A" THEN wc ELSE 0]]

\* the user opens a document or a note of the library, gives an input to the
\* reader of the open document, or a pending callback runs, or time passes
Next ==
  \/ \E d \in Docs : OpenBook(d)
  \/ \E d \in Docs : OpenNote(d, NoteIndex(d))
  \/ \E l \in pdfLoads : PdfLoaded(l)
  \/ TogglePlay
  \/ \E delta \in {-1, 1, 3} : StepWords(delta)
  \/ \E dir \in {-1, 1} : StepSentence(dir)
  \/ BookmarkJump(BookmarkIndex(selectedBookId))
  \/ PdfCanvasClick
  \/ \E p \in 1..2 : PdfPageJump(p)
  \/ SliderPointerDown
  \/ \E v \in {0, 3} : \E c \in BOOLEAN : SliderInput(v, c)
  \/ ScrubFrame
  \/ \E i \in 1..MaxTimers : TickFire(i)
  \/ \E i \in 1..MaxTimers : StopFire(i)
  \/ PdfSyncFire
  \/ PassTime

(***************************************************************************)
(* stripPdfHeadersFooters on sampled pages.  Every page is 100 high: a     *)
(* header line at 95, body lines at 50 and 40, a footer line at 5.         *)
(***************************************************************************)
\* count copies of c
Repeat(c, count) == [i \in 1 .. count |-> c]

\* count one-letter words separated by single spaces, after a first word
WordsAfter(first, count) ==
  first \o [i \in 1 .. 2 * (count - 1) |-> IF i % 2 = 1 THEN SP ELSE "a"]

DigitOf(i) == <<"0", "1", "2", "3", "4", "5", "6", "7", "8", "9">>[(i % 10) + 1]

\* the header of page i: a running title, alone, with the page number, or
\* followed by a row of dots up to 120 and 121 characters; a title of two
\* letters; a line of 15 and of 16 words
HeaderKinds == {"title", "numbered", "dotted120", "dotted121", "short", "words15", "words16"}
HeaderText(kind, i) ==
  CASE kind = "title" -> <<"A", "b", "c">>
    [] kind = "numbered" -> <<"A", "b", "c", SP, DigitOf(i)>>
    [] kind = "dotted120" -> <<"A", "b", "c">> \o Repeat(".", 117)
    [] kind = "dotted121" -> <<"A", "b", "c">> \o Repeat(".", 118)
    [] kind = "short" -> <<"a", "b">>
    [] kind = "words15" -> WordsAfter(<<"b">>, 15)
    [] kind = "words16" -> WordsAfter(<<"b">>, 16)

\* the footer of page i: none, or a page number in one of the forms of
\* isPageNumberLike, among them one of 121 characters and one of 15 words
FooterKinds == {"none", "digits", "fraction", "pageOf", "roman", "digits121", "pageWords15"}
FooterText(kind, i) ==
  CASE kind = "digits" -> <<DigitOf(i)>>
    [] kind = "fraction" -> <<DigitOf(i), SP, "/", SP, "3">>
    [] kind = "pageOf" -> <<"P", "a", "g", "e", SP, DigitOf(i), SP, "o", "f", SP, "3">>
    [] kind = "roman" -> <<"i", "v">>
    [] kind = "digits121" -> <<DigitOf(i)>> \o Repeat(".", 120)
    [] kind = "pageWords15" -> WordsAfter(<<"P", "a", "g", "e", DigitOf(i)>>, 15)
    [] OTHER -> <<>>

\* the user's ignore-phrases, line 2645
PhraseSamples == { <<>>, << <<"A", "b", "c">> >>, << <<"a">> >> }

\* page i of a document: the header on the pages of withHeader (the first
\* pages of the document, or none of its pages); the header
\* text once more in the body of the last page when repeated is set
SamplePage(i, count, header, withHeader, footer, repeated) ==
  [pageIndex |-> i, pageHeight |-> 100,
   lines |-> (IF i \in withHeader THEN << [y |-> 95, text |-> HeaderText(header, i)] >> ELSE <<>>)
             \o << [y |-> 50, text |-> <<"B", "a", "d", SP, "c", "a", "b">>] >>
             \o (IF repeated /\ i = count
                 THEN << [y |-> 40, text |-> HeaderText(header, i)] >> ELSE <<>>)
             \o (IF footer # "none" THEN << [y |-> 5, text |-> FooterText(footer, i)] >> ELSE <<>>)]

StripInit ==
  /\ TokRest /\ RdrRest /\ settings = RestSettings
  /\ pgTexts = <<>> /\ pgContent = NoContent /\ pgPhase = "input"
  /\ pgQuery = 0 /\ pgResult = 0
  /\ \E header \in HeaderKinds : \E headers \in 0 .. MaxStripPages :
       \E footer \in FooterKinds : \E repeated \in BOOLEAN :
         \E enabled \in BOOLEAN : \E phrases \in PhraseSamples :
           strip = [NoStrip EXCEPT
                      !.pages = [i \in 1 .. MaxStripPages |->
                                   SamplePage(i, MaxStripPages, header, 1 .. headers, footer,
                                              repeated)],
                      !.options = [enabled |-> enabled, customPhrases |-> phrases]]

\* line 2475
StripPages ==
  /\ ~strip.done /\ strip.pages # <<>>
  /\ LET out == stripPdfHeadersFooters(strip.pages, strip.options)
     IN strip' = [strip EXCEPT !.done = TRUE, !.kept = out.kept, !.pageTexts = out.pageTexts]
  /\ UNCHANGED <<pgTexts, pgContent, pgPhase, pgQuery, pgResult>>

(***************************************************************************)
(* The pause model and the word display on one token.                      *)
(***************************************************************************)
\* tokens of a merged stream: a paragraph break, and words that are plain,
\* end in hard or soft punctuation with or without a closing wrapper after
\* it, or carry punctuation inside; then words of 0 to 20 letters
WordSamples ==
  {ParaTok}
    \cup {WordTok(w) : w \in { <<"a", ".">>, <<"a", "!">>, <<"a", "?", ")">>, <<"a", ".", "\"", ")">>,
                              <<"a", ",">>, <<"a", ";">>, <<"a", ":", ")">>,
                              <<"a", ")">>, <<"a", ".", "a">>, <<"a", ",", "a">> }}
    \cup {WordTok([i \in 1..n |-> "a"]) : n \in {0, 1, 2, 3, 5, 6, 9, 10, 13, 14, 20}}

\* the speed slider (out of range on either side as well), the pause slider
\* and the auto-pause switch
PauseSettings ==
  {[RestSettings EXCEPT !.wpm = w, !.pause = p, !.autoPause = a] :
     w \in {100, 150, 300, 600, 1200, 1500}, p \in {0, 1, 80, 100, 180, 200}, a \in BOOLEAN}

WordInit ==
  /\ PdfRest /\ RdrRest
  /\ tkMode = "none" /\ tkText = <<>> /\ tkInput = <<>>
  /\ tkOnce = NoMerge /\ tkTwice = NoMerge /\ tkPhase = "input" /\ ixMap = NoMap
  /\ settings \in PauseSettings
  /\ \E tok \in WordSamples : wd = [NoWord EXCEPT !.has = TRUE, !.tok = tok]

\* line 4251: the pause of the token a playback step shows
PauseOfToken ==
  /\ wd.has /\ wd.pause = <<>>
  /\ wd' = [wd EXCEPT !.pause = getPauseInfoForToken(settings, wd.tok)]
  /\ UNCHANGED <<tkMode, tkText, tkInput, tkOnce, tkTwice, tkPhase, ixMap>>

\* line 3989: the display of a word token
RenderWord ==
  /\ wd.has /\ wd.tok.kind = "word" /\ wd.rsvp = <<>>
  /\ wd' = [wd EXCEPT !.rsvp = renderRSVPWord(wd.tok.t)]
  /\ UNCHANGED <<tkMode, tkText, tkInput, tkOnce, tkTwice, tkPhase, ixMap>>

(***************************************************************************)
(* Specifications.                                                         *)
(***************************************************************************)
\* tokenize and mergePunctuationTokens on bounded inputs
InitTok == TokInit /\ PdfRest /\ RdrRest /\ settings = RestSettings
NextTok ==
  \/ TokenizeText /\ UNCHANGED <<pdfVars, rdrVars>>
  \/ MergeTokens /\ UNCHANGED <<pdfVars, rdrVars>>
  \/ MergeAgain /\ UNCHANGED <<pdfVars, rdrVars>>
  \/ MapIndices /\ UNCHANGED <<pdfVars, rdrVars>>
SpecTok == InitTok /\ [][NextTok]_vars

\* buildPdfContentFromPages and the page lookups on bounded inputs
InitPdf == PdfInit /\ TokRest /\ RdrRest /\ settings = RestSettings
NextPdf ==
  \/ BuildPdf /\ UNCHANGED <<tokVars, rdrVars>>
  \/ LookupPageOfWord /\ UNCHANGED <<tokVars, rdrVars>>
  \/ LookupStartOfPage /\ UNCHANGED <<tokVars, rdrVars>>
  \/ LookupPageOfPageStart /\ UNCHANGED <<tokVars, rdrVars>>
SpecPdf == InitPdf /\ [][NextPdf]_vars

\* the content store: books are pasted, found at startup or restored from a
\* backup, with the store ready or not
NextStore ==
  \/ \E d \in Docs : \E text \in TextSamples : PasteAdd(d, text)
  \/ \E d \in Docs : \E toks \in StreamSamples : ImportData(d, toks)
  \/ \E d \in Docs : OpenBook(d)
  \/ TogglePlay
  \/ \E l \in contentLoads : ContentResolved(l)
  \/ RenderLibrary
SpecStore == StoreInit /\ [][NextStore]_vars

\* getPauseInfoForToken and renderRSVPWord on sampled tokens and settings
NextWord ==
  \/ PauseOfToken /\ UNCHANGED <<pdfVars, rdrVars>>
  \/ RenderWord /\ UNCHANGED <<pdfVars, rdrVars>>
SpecWord == WordInit /\ [][NextWord]_vars

\* stripPdfHeadersFooters on sampled pages and options
NextStrip == StripPages /\ UNCHANGED <<tokVars, rdrVars>>
SpecStrip == StripInit /\ [][NextStrip]_vars

\* the reader: documents, playback, navigation, timers
Init == TokRest /\ PdfRest /\ RdrInit
Spec == Init /\ [][Next]_vars

\* Playback left to itself: the user picks a document and a position and
\* presses play while nothing is pending and nothing has been read, and
\* gives no input until playback is over.  setTimeout runs every callback
\* whose delay has passed and pdf.js settles every load, so the callbacks
\* are run fairly.
Quiet ==
  /\ ~reader.isPlaying /\ tickTimers = <<>> /\ stopTimers = <<>>
  /\ \A d \in Docs : books[d].totalReadWords = 0

CallbackStep ==
  \/ \E i \in 1..MaxTimers : TickFire(i)
  \/ \E i \in 1..MaxTimers : StopFire(i)
  \/ PdfSyncFire
  \/ \E l \in pdfLoads : PdfLoaded(l)
  \/ PassTime

NextPlay ==
  \/ Quiet /\ \E d \in Docs : OpenBook(d)
  \/ Quiet /\ \E delta \in {-1, 1, 3} : StepWords(delta)
  \/ Quiet /\ TogglePlay
  \/ CallbackStep

\* ENABLED <<CallbackStep>>_vars, written out: a due callback can run and
\* changes the state, or a load can settle, or time can pass
CallbackEnabled ==
  \/ \E i \in DOMAIN tickTimers :
       /\ CanFire(tickTimers[i].due)
       /\ LET s == advancePlayback([Cur EXCEPT !.ticks = RemoveAt(@, i)])
          IN WithinBounds(s) /\ (s # Cur \/ lastOp # "advancePlayback")
  \/ \E i \in DOMAIN stopTimers :
       /\ CanFire(stopTimers[i].due)
       /\ WithinBounds(stopReader([Cur EXCEPT !.stops = RemoveAt(@, i)], TRUE))
  \/ /\ pdfSync.pending
     /\ CanFire(pdfSync.due)
     /\ WithinBounds(setPdfPage([Cur EXCEPT !.sync = NoSync], pdfSync.target, FALSE, TRUE))
  \/ pdfLoads # {}
  \/ PassTimeBy # {}

\* weak fairness of the callbacks, WF_vars(CallbackStep), with its ENABLED
\* written out as CallbackEnabled
SpecPlay ==
  /\ Init /\ [][NextPlay]_vars
  /\ ([]<>(~CallbackEnabled) \/ []<><<CallbackStep>>_vars)

(***************************************************************************)
(* Properties of the reader, under Spec.                                   *)
(***************************************************************************)
\* the last token of the open document is the current position
AtFinalToken ==
  /\ selectedBookId # NoBook
  /\ books[selectedBookId].index = books[selectedBookId].tokenCount - 1

\* C1: once playback has advanced onto the final token, the scheduler goes to
\* Paused, not Idle: the stop that follows leaves isPlaying false and keeps the
\* session (its start, sessionWords, pauses, elapsed time) instead of clearing it.
C1_EndOfStreamPauses ==
  [][(lastOp' = "endStop" /\ reader.isPlaying /\ AtFinalToken) =>
       /\ ~reader'.isPlaying
       /\ reader'.startedAt # Null
       /\ reader'.sessionWords = reader.sessionWords
       /\ reader'.pauses = reader.pauses
       /\ reader'.elapsedBefore >= reader.elapsedBefore]_vars

\* every pending callback was armed for the open document
NoStaleCallback ==
  /\ \A i \in DOMAIN tickTimers : tickTimers[i].doc = selectedBookId
  /\ \A i \in DOMAIN stopTimers : stopTimers[i].doc = selectedBookId
  /\ pdfSync.pending => pdfSync.doc = selectedBookId
  /\ scrub.pending => scrub.doc = selectedBookId

\* the step runs a callback that was armed for another document
StaleCallbackRuns ==
  \/ lastOp' = "pdfSync" /\ pdfSync.doc # selectedBookId
  \/ lastOp' = "applyScrub" /\ scrub.doc # selectedBookId
  \/ lastOp' = "endStop" /\ \A i \in DOMAIN stopTimers : stopTimers[i].doc # selectedBookId
  \/ lastOp' = "advancePlayback" /\ \A i \in DOMAIN tickTimers : tickTimers[i].doc # selectedBookId

\* C2: after the open document has been switched, no callback armed for the
\* previous document is pending (tick timer, page-sync timer, scrub frame,
\* end-of-stream stop timer), and no such callback changes the position, the
\* stored page or the playing state of the document that is open now.
C2_SwitchCancelsCallbacks ==
  /\ []NoStaleCallback
  /\ [][StaleCallbackRuns =>
          /\ selectedBookId' = selectedBookId
          /\ books'[selectedBookId].index = books[selectedBookId].index
          /\ books'[selectedBookId].currentPdfPage = books[selectedBookId].currentPdfPage
          /\ reader'.isPlaying = reader.isPlaying]_vars

\* the handlers that reposition the reader on a manual navigation
NavOps == {"stepWords", "stepSentence", "applyScrub", "bookmarkJump", "noteJump", "pdfPageJump"}

\* C3: every manual navigation (word step, sentence step, scrub, bookmark
\* jump, note jump, PDF page jump) leaves the scheduler not playing and leaves
\* sessionWords, pauses and the document's totalReadWords as they were, in
\* every interleaving with a running playback.
C3_NavigationPausesAndKeepsCounters ==
  [][lastOp' \in NavOps =>
       /\ ~reader'.isPlaying
       /\ reader'.sessionWords = reader.sessionWords
       /\ reader'.pauses = reader.pauses
       /\ books'[selectedBookId'].totalReadWords = books[selectedBookId'].totalReadWords]_vars

(***************************************************************************)
(* Properties of the page ranges and of the page lookups, under SpecPdf.   *)
(***************************************************************************)
\* C4: for every list of pages, pages without words included, the page ranges
\* built by buildPdfContentFromPages are sorted by page and partition
\* [0, totalWords-1]: every word index lies in exactly one range and no range
\* extends past totalWords-1.
C4_RangesPartitionWords ==
  pgPhase = "built" =>
    LET ranges == pgContent.pageRanges
        W == pgContent.wordCount
    IN /\ \A k \in 1..Len(ranges) : ranges[k].page = k
       /\ \A w \in 0..(W - 1) :
            Cardinality({k \in 1..Len(ranges) : ranges[k].start <= w /\ w <= ranges[k].end}) = 1
       /\ \A k \in 1..Len(ranges) : ranges[k].start >= 0 /\ ranges[k].end <= W - 1

\* C5: with pages that have no word among the pages, the lookup of a word
\* index w in [0, totalWords-1] returns the page whose own tokens hold the
\* w-th word, and looking up the start of a page that has a word returns
\* that page.
C5_LookupWithEmptyPages ==
  LET counts == [k \in 1..Len(pgContent.tokensByPage) |-> countWords(pgContent.tokensByPage[k])]
      before(k) == SumSeq(SubSeq(counts, 1, k - 1))
  IN /\ (pgPhase = "word" /\ pgQuery >= 0 /\ pgQuery < pgContent.wordCount) =>
          (before(pgResult) <= pgQuery /\ pgQuery < before(pgResult) + counts[pgResult])
     /\ (pgPhase = "roundtrip" /\ counts[pgQuery] > 0) => pgResult = pgQuery

\* C6: when every page has at least one word, the lookup of a word index w in
\* [0, totalWords-1] returns the page of the one range with start <= w <= end.
C6_LookupFindsTheRange ==
  LET ranges == pgContent.pageRanges
  IN (/\ pgPhase = "word"
      /\ \A k \in 1..Len(ranges) : ranges[k].wordCount >= 1
      /\ pgQuery >= 0 /\ pgQuery < pgContent.wordCount) =>
       /\ \E k \in 1..Len(ranges) :
            ranges[k].start <= pgQuery /\ pgQuery <= ranges[k].end /\ ranges[k].page = pgResult
       /\ \A k \in 1..Len(ranges) :
            (ranges[k].start <= pgQuery /\ pgQuery <= ranges[k].end) => ranges[k].page = pgResult

\* the ranges (1,0,4), (2,5,9), (3,10,12) and the lookup of word 9, on page 2
C6_Witness ==
  /\ pgPhase = "word"
  /\ Len(pgContent.pageRanges) = 3
  /\ pgContent.pageRanges[1].start = 0 /\ pgContent.pageRanges[1].end = 4
  /\ pgContent.pageRanges[2].start = 5 /\ pgContent.pageRanges[2].end = 9
  /\ pgContent.pageRanges[3].start = 10 /\ pgContent.pageRanges[3].end = 12
  /\ pgQuery = 9 /\ pgResult = 2

(***************************************************************************)
(* Properties of tokenize and mergePunctuationTokens, under SpecTok.       *)
(***************************************************************************)
\* C7: mergePunctuationTokens is idempotent: merging the output of a merge
\* again returns the same tokens and reports changed = false.
C7_MergeIdempotent ==
  tkPhase = "twice" => (tkTwice.tokens = tkOnce.tokens /\ ~tkTwice.changed)

\* a first merge that changed its input and kept tokens, merged again
C7_Witness ==
  /\ tkMode = "tokens" /\ tkPhase = "twice"
  /\ tkOnce.changed /\ tkOnce.tokens # <<>>
  /\ \E i \in 1..Len(tkInput) : tkInput[i].kind = "punct"
  /\ \E i \in 1..Len(tkInput) : tkInput[i].kind = "para"

\* C8: the output of tokenize, and of mergePunctuationTokens on word, punct
\* and para tokens, has no token of kind punct and no word token whose text
\* is only punctuation.
C8_NoStandalonePunctuation ==
  tkPhase \in {"once", "twice"} =>
    \A i \in 1..Len(tkOnce.tokens) :
      /\ tkOnce.tokens[i].kind # "punct"
      /\ tkOnce.tokens[i].kind = "word" => isWordLike(tkOnce.tokens[i].t)

\* a text with a punctuation fragment before its first word, tokenized
C8_Witness ==
  /\ tkMode = "text" /\ tkPhase = "once"
  /\ LET raw == rawTokens(normalizeText(tkText))
     IN raw # <<>> /\ raw[1].kind = "punct" /\ \E i \in 1..Len(raw) : raw[i].kind = "word"
  /\ tkOnce.tokens # <<>>

\* C9: the output of tokenize never starts with a paragraph-break token, never
\* ends with one and never has two of them next to each other.
C9_ParagraphBreaksOnlyBetween ==
  (tkMode = "text" /\ tkPhase = "once" /\ tkOnce.tokens # <<>>) =>
    LET toks == tkOnce.tokens
    IN /\ toks[1].kind # "para"
       /\ toks[Len(toks)].kind # "para"
       /\ \A i \in 1..(Len(toks) - 1) : ~(toks[i].kind = "para" /\ toks[i + 1].kind = "para")

\* C10: tokenize returns the empty stream for every text that is empty or made
\* of whitespace and punctuation only, over several paragraphs too.
C10_PunctuationOnlyIsEmpty ==
  (/\ tkMode = "text" /\ tkPhase = "once"
   /\ \A i \in 1..Len(tkText) : tkText[i] \in {".", SP, NL}) =>
    tkOnce.tokens = <<>>

(***************************************************************************)
(* Properties of the index mapper, under SpecTok.                          *)
(***************************************************************************)
\* C11: on a non-empty stream the word index of a token index never
\* decreases as the token index grows; the token index found for the word
\* index of a word token is not before that token; and the token indices of
\* successive word indices strictly increase.
C11_IndexMapsAreMonotone ==
  (tkPhase = "mapped" /\ ixMap.stream # <<>>) =>
    LET toks == ixMap.stream
        W == countWords(toks)
    IN /\ \A t \in -2 .. Len(toks) : ixMap.wordOf[t] <= ixMap.wordOf[t + 1]
       /\ \A t \in 0 .. Len(toks) - 1 :
            toks[t + 1].kind = "word" => ixMap.tokenOf[ixMap.wordOf[t]] >= t
       /\ \A w \in 0 .. W - 2 : ixMap.tokenOf[w] < ixMap.tokenOf[w + 1]

\* a mapped stream with two words and a non-word token between them
C11_Witness ==
  /\ tkPhase = "mapped"
  /\ Len(ixMap.stream) = 3
  /\ ixMap.stream[1].kind = "word" /\ ixMap.stream[2].kind # "word"
  /\ ixMap.stream[3].kind = "word"
  /\ ixMap.wordOf[2] = 1 /\ ixMap.tokenOf[1] = 2

\* C12: index requests are clamped.  For every token index, in range or
\* not, the word index returned lies in [0, W-1] and is the index of the
\* nearest word at or before the clamped position (0 if there is none);
\* for every word index the token index returned holds a word token, the
\* first word for requests below 0 and the last word for requests above W-1.
C12_LookupsAreClamped ==
  (tkPhase = "mapped" /\ ixMap.stream # <<>>) =>
    LET toks == ixMap.stream
        W == countWords(toks)
        wordsUpTo(t) == countWords(SubSeq(toks, 1, clamp(t, 0, Len(toks) - 1) + 1))
    IN /\ \A t \in DOMAIN ixMap.wordOf :
            /\ ixMap.wordOf[t] \in 0 .. W - 1
            /\ ixMap.wordOf[t] = Max(0, wordsUpTo(t) - 1)
       /\ \A w \in DOMAIN ixMap.tokenOf :
            /\ ixMap.tokenOf[w] \in 0 .. Len(toks) - 1
            /\ toks[ixMap.tokenOf[w] + 1].kind = "word"
            /\ w < 0 => ixMap.tokenOf[w] = ixMap.tokenOf[0]
            /\ w > W - 1 => ixMap.tokenOf[w] = ixMap.tokenOf[Max(0, W - 1)]

(***************************************************************************)
(* Properties of the content store, under SpecStore.                       *)
(***************************************************************************)
\* C13: a cached word index map is the map of the document's current token
\* stream, in every state: after an import, after the re-merge of either
\* path of ensureBookContent, after importData has replaced the content,
\* with the store ready or not.
C13_CachedMapIsCurrent ==
  \A d \in Docs :
    wordIndexCache[d].has => wordIndexCache[d] = WordIndexMap(getCachedTokens(Cur, d))

\* a book pasted while the store is not ready, with a stream that has tokens
PastedWithoutStore ==
  /\ ~idbReady
  /\ selectedBookId # NoBook
  /\ bookTokens[selectedBookId] = <<>>
  /\ books[selectedBookId].tokenCount > 0

\* C18: with the store not ready, the stream of a document created by
\* createBookFromText is available to getCachedTokens once the import has
\* run, and a start request on it reaches Playing.
C18_PlaysWithoutStore ==
  /\ []((PastedWithoutStore /\ lastOp = "createBook") =>
          getCachedTokens(Cur, selectedBookId) # <<>>)
  /\ [][(PastedWithoutStore /\ ~reader.isPlaying /\ lastOp' = "play") =>
          reader'.isPlaying]_vars

(***************************************************************************)
(* Properties of the reader's position and schedule, under Spec.           *)
(***************************************************************************)
\* C14: whatever playback steps, navigation calls and page-sync callbacks
\* have run, the stored word index of the open document is the word index
\* of its position, and its stored page is the page of that word index.
C14_DerivedValuesAgree ==
  selectedBookId # NoBook =>
    LET d == selectedBookId
    IN /\ books[d].currentWordIndex =
            getWordIndexForTokenIndex(contentCache[d].tokens, books[d].index)
       /\ books[d].currentPdfPage =
            getPdfPageForWordIndex(contentCache[d].pageRanges, books[d].currentWordIndex)

\* C15: a playback step moves the position from i to j with
\* i < j <= i + chunkSize (chunkSize clamped to 1..4), and when it moves by
\* more than one token every token in (i, j] is a word: no paragraph break
\* or other non-word token is stepped over.
C15_StepAdvancesWithinChunk ==
  [][(lastOp' = "advancePlayback" /\ reader.isPlaying /\ selectedBookId # NoBook) =>
       LET d == selectedBookId
           toks == contentCache[d].tokens
           i == books[d].index
           j == books'[d].index
       IN /\ i < j
          /\ j <= i + clamp(settings.chunkSize, 1, 4)
          /\ j > i + 1 => \A k \in (i + 1) .. j : toks[k + 1].kind = "word"]_vars

Elapsed(r, t) == r.elapsedBefore + (IF r.isPlaying THEN t - r.startedAt ELSE 0)

\* the handlers that call stopReader(true)
HardStopOps == {"openBook", "noteJump", "endStop"}

\* C17: a pause followed by a resume keeps sessionWords and pauses; the
\* elapsed time of the session grows only while playing: it never decreases,
\* and neither time passing while paused nor the resume changes it; a hard
\* stop sets elapsed, sessionWords and pauses to zero and leaves no tick
\* pending.
C17_PauseResumeKeepsSession ==
  [][/\ lastOp' = "pause" =>
          /\ ~reader'.isPlaying
          /\ reader'.sessionWords = reader.sessionWords
          /\ reader'.pauses = reader.pauses
     /\ (lastOp' = "play" /\ ~Falsy(reader.startedAt)) =>
          /\ reader'.isPlaying
          /\ reader'.sessionWords = reader.sessionWords
          /\ reader'.pauses = reader.pauses
     /\ lastOp' \notin HardStopOps =>
          /\ Elapsed(reader', now') >= Elapsed(reader, now)
          /\ (~reader.isPlaying /\ lastOp' \in {"passTime", "play"}) =>
               Elapsed(reader', now') = Elapsed(reader, now)
     /\ lastOp' \in HardStopOps =>
          /\ ~reader'.isPlaying
          /\ reader'.elapsedBefore = 0
          /\ reader'.sessionWords = 0
          /\ reader'.pauses = 0
          /\ tickTimers' = <<>>]_vars

\* playback has been resumed in a session that has played for some time and
\* counted a word
C17_Witness ==
  /\ lastOp = "play" /\ reader.isPlaying
  /\ reader.elapsedBefore > 0 /\ reader.sessionWords > 0

\* C19: the page-sync is debounced.  A pending page-sync timer is due within
\* 140 ms and position changes made while it is pending arm no other timer
\* and do not move its deadline, so one window of position changes leads to
\* one setPdfPage; and the page that call applies is the page of the most
\* recent position change.
C19_PageSyncAppliesLatestPage ==
  /\ [](pdfSync.pending => pdfSync.due <= now + 140)
  /\ [][/\ (pdfSync.pending /\ pdfSync'.pending /\ lastOp' # "passTime") =>
             pdfSync'.due = pdfSync.due
        /\ (/\ lastOp' = "pdfSync" /\ selectedBookId # NoBook
            /\ pdfSync.doc = selectedBookId /\ pdfState.doc) =>
             pdfState'.page =
               getPdfPageForWordIndex(contentCache[selectedBookId].pageRanges,
                                      books[selectedBookId].currentWordIndex)]_vars

\* C20: scrub input is coalesced.  A scheduleScrub call leaves one frame
\* callback pending, holding the value and commit flag of that call, whether
\* or not a callback was pending before; the callback then runs applyScrub
\* once with that value, which moves the position to the token of that word,
\* and leaves no callback pending.
C20_ScrubCoalesced ==
  [][/\ lastOp' = "scheduleScrub" =>
          /\ scrub'.pending
          /\ \E v \in {0, 3} : \E c \in BOOLEAN :
               /\ SliderInput(v, c)
               /\ scrub'.value = v /\ scrub'.commit = c
     /\ (lastOp' = "applyScrub" /\ selectedBookId # NoBook) =>
          /\ ~scrub'.pending
          /\ books'[selectedBookId].index =
               getTokenIndexForWordIndex(
                 contentCache[selectedBookId].tokens,
                 clamp(scrub.value, 0,
                       Max(0, Max(1, books[selectedBookId].wordCount) - 1)))]_vars

\* three scrub requests were made before the frame: one callback is pending
\* and holds the last value, with the commit flag of the change event
C20_Witness ==
  /\ lastOp = "scheduleScrub" /\ scrub.pending
  /\ scrub.calls = 3 /\ scrub.value = 3 /\ scrub.commit

(***************************************************************************)
(* Properties of sentence stepping and of the pause model, under Spec.     *)
(***************************************************************************)
\* the token at index k is punctuation or a paragraph break
IsBreakToken(toks, k) == toks[k + 1].kind \in {"punct", "para"}

\* the greatest member of a non-empty set of numbers
Greatest(S) == CHOOSE x \in S : \A y \in S : y <= x
Least(S) == CHOOSE x \in S : \A y \in S : x <= y

\* C21: a sentence step backward from position i passes over the
\* punctuation and paragraph-break tokens directly left of i and, when a
\* token ending in hard punctuation lies at or left of the token it arrives
\* at, the nearest one being p, sets the position to p + 1.  A sentence step
\* forward sets the position to q + 1, q the nearest index greater than i
\* whose token ends in hard punctuation, and to the last token when there is
\* no such index or q is the last token.  Both results lie in 0 .. N-1.
C21_SentenceStepTargets ==
  [][\A dir \in {-1, 1} :
       (StepSentence(dir) /\ contentCache[selectedBookId].tokens # <<>>) =>
         LET d == selectedBookId
             toks == contentCache[d].tokens
             N == Len(toks)
             i == books[d].index
             j == books'[d].index
             \* where the walk arrives after the tokens it passes over
             arrive == {k \in 0 .. i - 1 :
                          /\ ~IsBreakToken(toks, k)
                          /\ \A m \in k + 1 .. i - 1 : IsBreakToken(toks, m)}
             left == {p \in 0 .. i - 1 :
                        /\ isSentenceEnd(toks, p)
                        /\ \E k \in arrive : p <= k}
             right == {q \in i + 1 .. N - 1 : isSentenceEnd(toks, q)}
         IN /\ j \in 0 .. N - 1
            /\ (dir < 0 /\ left # {}) => j = Greatest(left) + 1
            /\ (dir > 0 /\ right # {}) => j = Min(Least(right) + 1, N - 1)
            /\ (dir > 0 /\ right = {}) => j = N - 1]_vars

\* a sentence step has put the position of document A right after its
\* sentence end "a." (token 1), which a paragraph break further on follows
C21_Witness ==
  /\ lastOp = "stepSentence" /\ selectedBookId = "A"
  /\ books["A"].index = 2
  /\ isSentenceEnd(contentCache["A"].tokens, 1)
  /\ \E k \in 2 .. Len(contentCache["A"].tokens) - 1 : IsBreakToken(contentCache["A"].tokens, k)

\* the text of a word without the closing wrappers at its end
Unwrapped(w) ==
  LET core == {n \in 1..Len(w) : ~IsTrailingWrapper(w[n])}
  IN IF core = {} THEN <<>> ELSE SubSeq(w, 1, Greatest(core))

\* the factor of the pause table, in hundredths: 1.2 for a paragraph break,
\* 0.8 for a word ending in hard punctuation, 0.35 for a word ending in soft
\* punctuation (closing wrappers after the punctuation set aside), 0 otherwise
PauseFactor(tok) ==
  LET core == Unwrapped(tok.t)
  IN IF tok.kind = "para" THEN 120
     ELSE IF tok.kind = "word" /\ core # <<>> /\ core[Len(core)] \in {".", "!", "?"} THEN 80
     ELSE IF tok.kind = "word" /\ core # <<>> /\ core[Len(core)] \in {",", ";", ":"} THEN 35
     ELSE 0

C23_PausesAreCounted ==
  /\ []((wd.has /\ wd.pause # <<>> /\ settings.autoPause) =>
          wd.pause.countPause = (PauseFactor(wd.tok) > 0))
  /\ [][(/\ lastOp' = "advancePlayback" /\ reader.isPlaying /\ reader'.isPlaying
          /\ selectedBookId # NoBook /\ settings.autoPause) =>
           LET d == selectedBookId
               tok == contentCache[d].tokens[books'[d].index + 1]
           IN reader'.pauses = reader.pauses + (IF PauseFactor(tok) > 0 THEN 1 ELSE 0)]_vars

\* C25: the pivot index of a word is 0 for a length up to 2, 1 for 3..5,
\* 2 for 6..9, 3 for 10..13 and 4 for longer words (lengths 1, 2, 5, 9, 13,
\* 20 give 0, 0, 1, 2, 3, 4); the pivot the display uses lies in
\* 0 .. len-1 for a non-empty word and splits the word into the letters
\* before it, the pivot letter and the letters after it; an empty word is
\* shown as the placeholder pivot with empty left and right segments.
C25_PivotBands ==
  (wd.has /\ wd.rsvp # <<>>) =>
    LET word == wd.tok.t
        len == Len(word)
        band == CASE len <= 2 -> 0
                  [] len \in 3 .. 5 -> 1
                  [] len \in 6 .. 9 -> 2
                  [] len \in 10 .. 13 -> 3
                  [] OTHER -> 4
        shown == wd.rsvp
    IN /\ getOrpIndex(word) = band
       /\ len = 0 => shown.left = <<>> /\ shown.pivot = Bullet /\ shown.right = <<>>
       /\ len > 0 =>
            /\ shown.idx \in 0 .. len - 1
            /\ shown.idx = band
            /\ shown.pivot = word[shown.idx + 1]
            /\ shown.left \o <<shown.pivot>> \o shown.right = word
            /\ Len(shown.left) = shown.idx
       /\ \A ex \in { <<1, 0>>, <<2, 0>>, <<5, 1>>, <<9, 2>>, <<13, 3>>, <<20, 4>> } :
            len = ex[1] => shown.idx = ex[2]

\* a word of 20 letters is shown with its fifth letter as the pivot
C25_Witness ==
  /\ wd.has /\ wd.rsvp # <<>>
  /\ Len(wd.tok.t) = 20 /\ wd.rsvp.idx = 4
  /\ Len(wd.rsvp.left) = 4 /\ Len(wd.rsvp.right) = 15

StripLine(p, k) == strip.pages[p].lines[k]
StripLines ==
  UNION {{<<p, k>> : k \in 1 .. Len(strip.pages[p].lines)} : p \in 1 .. Len(strip.pages)}
LineKept(p, k) == \E j \in 1 .. Len(strip.kept[p]) : strip.kept[p][j] = StripLine(p, k)

\* the signatures of a line: its normalized text with and without digits
Signatures(line) ==
  {normalizeLineForMatch(line.text), removeDigits(normalizeLineForMatch(line.text))}

\* the top and the bottom 15% of the page
TopOrBottomBand(p, k) ==
  \/ StripLine(p, k).y * 100 < 15 * strip.pages[p].pageHeight
  \/ StripLine(p, k).y * 100 > 85 * strip.pages[p].pageHeight

\* the pages on which the signature occurs in a margin band
BandPagesOf(sig) ==
  {p \in 1 .. Len(strip.pages) :
     \E k \in 1 .. Len(strip.pages[p].lines) :
       TopOrBottomBand(p, k) /\ sig \in Signatures(StripLine(p, k))}
OnManyPages(sig) == Cardinality(BandPagesOf(sig)) * 100 >= 35 * Len(strip.pages)
FrequentSignature(sig) == Len(sig) >= 3 /\ Len(sig) <= 90 /\ OnManyPages(sig)

\* the characters and the words of a line
LineLength(line) == Len(Trim(line.text))
LineWords(line) ==
  LET t == Trim(line.text)
  IN Cardinality({i \in 1 .. Len(t) : ~IsSpace(t[i]) /\ (i = Len(t) \/ IsSpace(t[i + 1]))})

\* the line contains one of the user's ignore-phrases
MatchesIgnorePhrase(line) ==
  \E i \in 1 .. Len(strip.options.customPhrases) :
    LET phrase == normalizeLineForMatch(strip.options.customPhrases[i])
    IN /\ phrase # <<>>
       /\ \E sig \in Signatures(line) : includes(sig, phrase)

\* the second half of C26: a margin-band line whose signatures are on fewer
\* than 35% of the pages, that is no page number and matches no ignore-phrase,
\* is kept
RareBandLinesKept ==
  \A pk \in StripLines :
    LET line == StripLine(pk[1], pk[2])
    IN (/\ TopOrBottomBand(pk[1], pk[2])
        /\ \A sig \in Signatures(line) : ~OnManyPages(sig)
        /\ ~isPageNumberLike(line.text)
        /\ ~MatchesIgnorePhrase(line)) => LineKept(pk[1], pk[2])

\* C26 as stated: with stripping enabled, every line with a signature of 3 to
\* 90 characters that is in a margin band on at least 35% of the pages is
\* removed from every page on which it appears, and a margin-band line with
\* rare signatures that is no page number and matches no ignore-phrase is kept.
C26_FrequentLinesRemoved ==
  (strip.done /\ strip.options.enabled) =>
    /\ \A pk \in StripLines :
         (\E sig \in Signatures(StripLine(pk[1], pk[2])) : FrequentSignature(sig))
           => ~LineKept(pk[1], pk[2])
    /\ RareBandLinesKept

\* C26 amended: with stripping enabled, every line of at most 120 characters
\* and fewer than 15 words with a signature of 3 to 90 characters that is in a
\* margin band on at least 35% of the pages is removed from every page on which
\* it appears, and a margin-band line with rare signatures that is no page
\* number and matches no ignore-phrase is kept.
C26_FrequentShortLinesRemoved ==
  (strip.done /\ strip.options.enabled) =>
    /\ \A pk \in StripLines :
         LET line == StripLine(pk[1], pk[2])
         IN (/\ LineLength(line) <= 120 /\ LineWords(line) < 15
             /\ \E sig \in Signatures(line) : FrequentSignature(sig))
              => ~LineKept(pk[1], pk[2])
    /\ RareBandLinesKept

\* a running title with the page number, at the top of two pages of three, is
\* removed from them and from the body of the third page, and the body line
\* stays
C26_Witness ==
  /\ strip.done /\ strip.options.enabled /\ strip.options.customPhrases = <<>>
  /\ Len(strip.pages) >= 3
  /\ Len(strip.pages[1].lines) = 2 /\ Len(strip.pages[3].lines) = 2
  /\ StripLine(1, 1).text = <<"A", "b", "c", SP, "1">> /\ TopOrBottomBand(1, 1)
  /\ StripLine(3, 2).text = <<"A", "b", "c", SP, "3">> /\ ~TopOrBottomBand(3, 2)
  /\ Cardinality(BandPagesOf(<<"a", "b", "c">>)) = 2
  /\ ~LineKept(1, 1) /\ LineKept(1, 2) /\ ~LineKept(3, 2)
  /\ strip.pageTexts[1] = <<"B", "a", "d", SP, "c", "a", "b">>
  /\ strip.pageTexts[3] = <<"B", "a", "d", SP, "c", "a", "b">>

\* C27: no line of more than 120 characters or of 15 or more words is
\* removed, whatever rule it matches.
C27_LongLinesKept ==
  strip.done =>
    \A pk \in StripLines :
      LET line == StripLine(pk[1], pk[2])
      IN (LineLength(line) > 120 \/ LineWords(line) >= 15) => LineKept(pk[1], pk[2])

\* C28: every line that contains an ignore-phrase is removed, with stripping
\* enabled or disabled and whatever its length or position.
C28_IgnorePhrasesRemoved ==
  strip.done =>
    \A pk \in StripLines :
      MatchesIgnorePhrase(StripLine(pk[1], pk[2])) => ~LineKept(pk[1], pk[2])

(***************************************************************************)
(* Properties of the end of the stream.                                    *)
(***************************************************************************)
\* C29: during playback every word token after the start position is counted
\* once.  A playback step from position i to position j adds to sessionWords
\* no more than the number of word tokens in (i, j], and no playback step is
\* taken from the final token, neither after the step that showed it nor when
\* playback was started on it.
C29_WordsCountedOnce ==
  [][(lastOp' = "advancePlayback" /\ reader.isPlaying /\ selectedBookId # NoBook) =>
       LET d == selectedBookId
           toks == contentCache[d].tokens
           i == books[d].index
           j == books'[d].index
       IN /\ i < Len(toks) - 1
          /\ reader'.sessionWords - reader.sessionWords
               <= Cardinality({k \in (i + 1) .. j : toks[k + 1].kind = "word"})]_vars

\* C30: a playback session started after an earlier session reached the end
\* of the stream is not stopped, and its session statistics are not cleared,
\* by the stop callback that the earlier session armed.
C30_StaleStopIsHarmless ==
  [][\A i \in DOMAIN stopTimers :
       (StopFire(i) /\ stopTimers[i].stale) =>
         /\ reader'.isPlaying = reader.isPlaying
         /\ reader'.startedAt = reader.startedAt
         /\ reader'.elapsedBefore = reader.elapsedBefore
         /\ reader'.sessionWords = reader.sessionWords
         /\ reader'.pauses = reader.pauses]_vars

(***************************************************************************)
(* Properties of stripping: disabled stripping and lines of the body.      *)
(***************************************************************************)
\* C39: with automatic stripping disabled only the lines that match an
\* ignore-phrase are removed, whether or not ignore-phrases are configured:
\* page numbers and frequent headers and footers are kept.
C39_DisabledRemovesOnlyPhrases ==
  (strip.done /\ ~strip.options.enabled) =>
    \A pk \in StripLines :
      ~LineKept(pk[1], pk[2]) => MatchesIgnorePhrase(StripLine(pk[1], pk[2]))

\* C40: a line outside the top and the bottom margin band is not removed for
\* its signature being frequent: when it is no page number and matches no
\* ignore-phrase, it is kept.
C40_BodyLinesKept ==
  strip.done =>
    \A pk \in StripLines :
      LET line == StripLine(pk[1], pk[2])
      IN (/\ ~TopOrBottomBand(pk[1], pk[2])
          /\ ~isPageNumberLike(line.text)
          /\ ~MatchesIgnorePhrase(line)) => LineKept(pk[1], pk[2])

(***************************************************************************)
(* Properties of the two pairs of index lookups.                           *)
(***************************************************************************)
\* C38: on every stream and for every index, in range or not, the lookups
\* through the cached map give what the linear scans give.
C38_MapAndScanAgree ==
  tkPhase = "mapped" =>
    /\ \A t \in DOMAIN ixMap.wordOf : ixMap.wordOf[t] = ixMap.scanWordOf[t]
    /\ \A w \in DOMAIN ixMap.tokenOf : ixMap.tokenOf[w] = ixMap.scanTokenOf[w]

(***************************************************************************)
(* Progress of backward sentence steps.                                    *)
(***************************************************************************)
\* C37: a sentence step backward from a position i > 0 sets a position
\* strictly less than i (so repeated steps backward reach position 0).
C37_BackwardStepMakesProgress ==
  [][(/\ StepSentence(-1)
      /\ contentCache[selectedBookId].tokens # <<>>
      /\ books[selectedBookId].index > 0) =>
       books'[selectedBookId].index < books[selectedBookId].index]_vars

(***************************************************************************)
(* Where the merge pass puts punctuation fragments.                        *)
(***************************************************************************)
\* the stream the merge pass is to give: a fragment after a word of the same
\* paragraph goes to the end of that word, any other fragment is held and
\* goes in front of the next word of the stream, and what is still held at
\* the end of the stream is dropped
RECURSIVE FoldFragments(_, _, _)
FoldFragments(out, held, toks) ==
  IF toks = <<>> THEN out
  ELSE LET tok == Head(toks)
           afterWord == out # <<>> /\ out[Len(out)].kind = "word"
       IN IF tok.kind = "punct"
          THEN IF afterWord
               THEN FoldFragments([out EXCEPT ![Len(out)].t = @ \o tok.t], held, Tail(toks))
               ELSE FoldFragments(out, held \o tok.t, Tail(toks))
          ELSE IF tok.kind = "word"
               THEN FoldFragments(Append(out, WordTok(held \o tok.t)), <<>>, Tail(toks))
               ELSE FoldFragments(Append(out, tok), held, Tail(toks))

\* C34: the merge pass appends a punctuation fragment that follows a word of
\* the same paragraph to that word, holds a fragment with no word before it
\* in its run and puts it in front of the next word produced, and drops it
\* only when no word follows it in the stream.
C34_FragmentsGoToAdjacentWords ==
  (tkMode = "tokens" /\ tkPhase \in {"once", "twice"}) =>
    tkOnce.tokens = FoldFragments(<<>>, <<>>, tkInput)

(***************************************************************************)
(* The re-merge of a stored stream, under SpecStore.                       *)
(***************************************************************************)
\* the step loads the content of document d from the store and re-merges it
ReMerges(d) ==
  /\ d \in library /\ idbReady /\ idbContents[d].has
  /\ ~contentCache[d].has /\ contentCache'[d].has
  /\ mergePunctuationTokens(idbContents[d].tokens).changed
  /\ contentCache'[d].tokens = mergePunctuationTokens(idbContents[d].tokens).tokens

\* C33: when ensureBookContent re-merges a stored stream, the saved position
\* becomes the index of a word token of the new stream, with the word index
\* the old position had in the old stream, and the document has as many
\* words as before.
C33_ReMergeKeepsPosition ==
  [][\A d \in Docs :
       ReMerges(d) =>
         LET old == idbContents[d].tokens
             new == contentCache'[d].tokens
             j == books'[d].index
         IN /\ j \in 0 .. Len(new) - 1
            /\ new[j + 1].kind = "word"
            /\ countWords(SubSeq(new, 1, j + 1)) - 1
                 = getWordIndexForTokenIndexFromTokens(old, books[d].index)
            /\ countWords(new) = countWords(old)
            /\ books'[d].wordCount = countWords(old)]_vars

(***************************************************************************)
(* Deferred starts, under SpecStore.                                       *)
(***************************************************************************)
\* the continuation of the waiting start request l, when it runs, finds no
\* tokens and leaves everything as it is, the request l waiting again: each
\* run of startReader is followed by another that finds the same
RetriesWithoutEnd(l) ==
  /\ l.then = "start"
  /\ resolveContent(Cur, l) = Cur

\* C31: a start request on a document whose content resolves to an empty
\* stream, or to nothing, comes to an end: startReader is not run again and
\* again, and the scheduler is not playing a document without tokens.
C31_StartOnEmptyTerminates ==
  /\ \A l \in contentLoads : ~RetriesWithoutEnd(l)
  /\ (reader.isPlaying /\ selectedBookId # NoBook) =>
       getCachedTokens(Cur, selectedBookId) # <<>>

\* C36: when play was requested for a document whose content was still
\* resolving and another document has been opened since, the deferred start
\* does not set the scheduler playing on the document that is open now.
\* (Content is still resolving while the read of the store is under way:
\* the store is ready and the content is not cached.)
C36_DeferredStartKeepsItsDocument ==
  [][\A l \in contentLoads :
       (ContentResolved(l) /\ ~ResolvesAtOnce(Cur, l.doc) /\ l.then = "start"
          /\ l.doc # selectedBookId) =>
         ~reader'.isPlaying]_vars


(***************************************************************************)
(* Pending tick timers.                                                    *)
(***************************************************************************)
\* C35: at most one playback tick timer is pending at any time, so that the
\* single clearTimeout of stopReader cancels every pending tick.
C35_AtMostOneTickPending == Len(tickTimers) <= 1


(***************************************************************************)
(* Playback runs to the end of the stream, under SpecPlay.                 *)
(***************************************************************************)
PlayPosition == getCurrentTokenIndex(Cur)

\* playback is over at the last token and no tick is pending
PlayedToTheEnd ==
  /\ ~reader.isPlaying
  /\ PlayPosition = Len(getCachedTokens(Cur, selectedBookId)) - 1
  /\ tickTimers = <<>>

====
